---- MODULE Spec2Model ----
(***************************************************************************)
(* Model of the per-camera ingest agent of Argus:                          *)
(*   - IP_Camera (engine/src/core/sensors/ip_camera.py): the frame source, *)
(*     its reader thread, the single-slot buffer, read() and close();      *)
(*   - DynamicEngine (engine/main.py): the pipeline run loop.              *)
(* Threads are modelled by a program counter each; every action is one     *)
(* atomic step of the code between two points where another thread can     *)
(* observe or change shared state.                                         *)
(***************************************************************************)
EXTENDS Integers, Sequences, FiniteSets, TLC

\* ---------------------------------------------------------------- bounds
MaxCaptures == 2      \* frames the reader (or connect) gets from the stream
MaxFrames == 2        \* frames the run loop captures
NumStages == 2        \* stages in the pipeline descriptor
MaxSignals == 1       \* SIGINT/SIGTERM deliveries
ErrCap == 12          \* cap on the reader's read_errors counter
NumRefs == 4          \* frame objects alive at once
MaxCloses == 2        \* close() calls the application makes on the frame source
batch_size == 2       \* config 'buffer_size' of the metadata sink
flush_interval == 2   \* config 'flush_interval' of the metadata sink, seconds
MaxRecords == 3       \* payloads handed to the metadata sink
MaxTime == 6          \* seconds of clock
MaxInsertTime == 2    \* seconds a bulk insert can take
MaxPredicts == 6      \* frames the Detector's own loop reads
NumEntries == 3       \* nexus entries
MaxRuns == 2          \* runs of the aggregation job
MaxJobs == 4          \* messages in the evidence queue
MaxBox == 2           \* bbox coordinates 0..MaxBox
MaxDrops == 2         \* times the stream drops
ConnectTime == 3      \* the longest a connect() takes, in 5 ms units
MaxHealthErrors == 1  \* failed reads in a row while the health monitor is watched

\* ------------------------------------------------------ program constants
ReadErrorLimit == 10  \* ip_camera.py: "if read_errors > 10"
PollTimeout == 1      \* metadata_handler.py: data_queue.get(timeout=1)
JoinTimeout == 5      \* metadata_handler.py: worker_thread.join(timeout=5)
entropy_thresh == 40  \* health.py: entropy_thresh=4.0, in tenths
white_thresh == 60    \* health.py: white_thresh=0.6, in hundredths
blur_thresh == 100    \* health.py: blur_thresh=100.0
black_thresh == 10    \* health.py: black_thresh=10.0

Threads == {"main", "reader", "client", "health"}
Refs == 1..NumRefs
Rotations == {0, 90, 180, 270}

VARIABLES
    \* IP_Camera fields
    rotation,            \* self.rotation
    is_open,             \* self.is_open
    capture,             \* self.capture: "none" | "open" | "failed" | "released"
    last_frame,          \* self._last_frame: a reference into heap, 0 = None
    last_frame_time,     \* self._last_frame_time
    reader_stop_event,   \* self.reader_stop_event
    health_stop_event,   \* self.health_stop_event
    \* frame objects (numpy arrays), by reference
    heap,
    \* threads
    pc,                  \* position of each thread
    loc,                 \* each thread's local frame reference (0 = None)
    ret_main,            \* where the main thread continues after the call it is in
    read_errors,         \* local of _reader_loop
    \* the clock: one tick per captured frame
    now,
    \* result of the client's last read() and of the one before
    c_res,
    c_prev,
    \* history (written, never read, by the program)
    pub_ts,              \* capture time of the frame last handed to _update_frame_buffer
    consecFails,         \* failed reads the reader thread has seen in a row
    close_returned,      \* close() has returned at least once
    \* main.py
    close_ret,           \* where the main thread continues when close() returns
    shutdown_event,      \* the module-level shutdown_event
    handler,             \* who handles SIGINT/SIGTERM: "main" | "camera"
    signals,             \* signals delivered so far
    frame_count,         \* local of run()
    stage_i,             \* index of the stage the for loop is at
    calls,               \* stages whose process() was invoked for the frame in flight
    subs,                \* stages that submitted a record or an artifact for it
    abort_at,            \* the stage that returned None for it, 0 = none
    frame_result,        \* "none" | "running" | "completed" | "aborted" | "raised"
    \* close() entered again
    sig_ret,             \* where close() was interrupted by the signal handler, "none" otherwise
    closes,              \* history: close() calls that have returned
    \* metadata_handler.py
    clock,               \* time.time(), in seconds
    data_queue,          \* self.data_queue
    stop_event,          \* self.stop_event
    buffer,              \* local of _batch_worker
    last_flush_time,     \* local of _batch_worker
    wpc,                 \* position of the worker thread
    w_wait,              \* seconds left of the worker's queue wait or bulk insert
    spc,                 \* position of the thread that owns the sink
    join_left,           \* seconds left of close()'s join
    submitted,           \* payloads handed to process() so far
    last_call,           \* history: the last process() call
    inserts,             \* history: the bulk inserts issued
    at_close,            \* history: what close() found
    gets,                \* history: the items the worker took, and what became of each
    \* main.py, build_pipeline
    built,               \* len(self.pipeline_modules)
    failed_stage,        \* history: the descriptor that could not be built, 0 = none
    \* a function under test: its argument and the results of applying it
    fn_arg,
    fn_res,
    \* detector.py
    d_pc,                \* position of the thread in Detector.process()
    d_frame_number,      \* local of Detector.process()
    helpers,             \* frames whose process_detection_results thread is running
    zm_in,               \* threads inside zone_manager.update_track_ids_status
    zm_done,             \* helper threads that have returned from it
    \* IP_Camera, health report
    is_connected,        \* self.is_connected
    is_corrupted,        \* self.is_corrupted
    health_issues,       \* self.health_issues
    h_ticked,            \* history: a health tick has been completed
    h_checked,           \* history: the last tick ran the image checks
    \* IP_Camera, the stream and the time the reader thread spends
    drops,               \* history: times the stream has dropped
    drop_ts,             \* history: capture time of the last frame before the last drop
    outage,              \* history: time spent without a live handle, in 5 ms units
    tick_pos,            \* where the reader thread last let time pass
    tick_n,              \* how much time it has spent there
    \* metadata_handler.py, one record and the objects it refers to
    rec_pc,              \* "none" | "queued" | "buffered" | "inserted"
    track_ids_info,      \* the payload's track map (one dict object): the bbox of its track
    instance_dict,       \* the track's nested zone map (one dict object): its location
    formatted_tracks,    \* the bbox in the document the worker built
    at_submit,           \* history: the values when process() was called
    inserted_doc,        \* history: the values that were bulk-inserted
    \* aggregator.py
    agg_pc,              \* position of the aggregation job
    agg_runs,            \* runs of the job so far
    ids_to_queue,        \* local of run_aggregation: the ids still to handle
    evidenceQueued,      \* nexus entries whose evidenceQueued field is set
    jobs,                \* messages published to the evidence queue (nexus ids)
    \* evidence-worker.py
    ew_pc,               \* position of the worker
    ew_ready,            \* the messages the broker holds for delivery
    ew_msg,              \* the delivery the callback runs on
    ew_success,          \* local of on_message_callback
    ew_delivered,        \* deliveries so far; the last one's delivery tag
    ew_acks,             \* history: basic_ack calls per delivery tag
    ew_log               \* history: how each callback ended

camVars == <<rotation, is_open, capture, last_frame, last_frame_time,
             reader_stop_event, health_stop_event, heap, pc, loc, ret_main,
             read_errors, now, c_res, c_prev, pub_ts, consecFails, close_returned>>

engVars == <<close_ret, shutdown_event, handler, signals, frame_count, stage_i,
             calls, subs, abort_at, frame_result>>

closeVars == <<sig_ret, closes>>

sinkVars == <<clock, data_queue, stop_event, buffer, last_flush_time, wpc, w_wait, spc,
              join_left, submitted, last_call, inserts, at_close>>

buildVars == <<built, failed_stage>>

pureVars == <<fn_arg, fn_res>>

detVars == <<d_pc, d_frame_number, helpers, zm_in, zm_done>>

healthVars == <<is_connected, is_corrupted, health_issues, h_ticked, h_checked>>

reconVars == <<drops, drop_ts, outage, tick_pos, tick_n>>

recVars == <<rec_pc, track_ids_info, instance_dict, formatted_tracks, at_submit,
             inserted_doc>>

aggVars == <<agg_pc, agg_runs, ids_to_queue, evidenceQueued, jobs>>

ewVars == <<ew_pc, ew_ready, ew_msg, ew_success, ew_delivered, ew_acks, ew_log>>

svcVars == <<aggVars, ewVars>>

moreVars == <<reconVars, recVars, svcVars>>

extVars == <<gets, buildVars, pureVars, detVars, healthVars, moreVars>>

restVars == <<closeVars, sinkVars, extVars>>

vars == <<camVars, engVars, restVars>>

\* everything of the camera but the threads' positions and return addresses
camData == <<rotation, is_open, capture, last_frame, last_frame_time, reader_stop_event,
             health_stop_event, heap, loc, read_errors, now, c_res, c_prev, pub_ts,
             consecFails, close_returned>>

\* ----------------------------------------------------------- frame heap
Free == [ts |-> 0, rot |-> 0, dirty |-> FALSE]

HasFree(h) == \E r \in Refs : h[r] = Free

Alloc(h) == CHOOSE r \in Refs : h[r] = Free /\ \A q \in Refs : h[q] = Free => r <= q

\* objects nobody references are reclaimed
Gc(h, roots) == [r \in Refs |-> IF r \in roots THEN h[r] ELSE Free]

Roots(lf, l) == {lf} \cup {l[t] : t \in Threads}

NoResult == [ok |-> FALSE, ts |-> 0, sawOpen |-> FALSE, latest |-> 0, fresh |-> FALSE,
             clean |-> TRUE]


\* =================================================================
\* IP_Camera
\* =================================================================

\* capture.read() on the current handle can deliver a frame only from an
\* opened, unreleased handle (ip_camera.py lines 92, 194)
CanDeliver == capture = "open" /\ now < MaxCaptures /\ HasFree(heap)

\* variant: frames stamped against the order of capture
NewFrame_Backwards(n) == [ts |-> MaxCaptures + 1 - n, rot |-> 0, dirty |-> FALSE]

\* the frame object a successful capture.read() returns, captured at time n
NewFrame(n) == [ts |-> n, rot |-> 0, dirty |-> FALSE]

\* _apply_rotation: the same object for rotation 0 (or an unsupported angle),
\* a new array from cv2.rotate otherwise
ApplyRotationRef(h, f) ==
    IF rotation \in {90, 180, 270} THEN Alloc(h) ELSE f

ApplyRotationHeap(h, f) ==
    IF rotation \in {90, 180, 270}
    THEN [h EXCEPT ![Alloc(h)] = [h[f] EXCEPT !.rot = rotation]]
    ELSE h

\* _update_frame_buffer(frame), by thread t with frame = loc[t]
UpdateFrameBuffer(t) ==
    /\ last_frame' = ApplyRotationRef(heap, loc[t])
    /\ last_frame_time' = now
    /\ loc' = [loc EXCEPT ![t] = 0]
    /\ heap' = Gc(ApplyRotationHeap(heap, loc[t]), Roots(last_frame', loc'))

\* variant: a failed reconnect ends the reader thread
AfterConnect_DiesOnFailure(t, ok) ==
    IF t = "reader" THEN (IF ok THEN "loop" ELSE "done")
    ELSE IF ok THEN ret_main ELSE "exit1"

\* where a thread continues when connect() returns ok
AfterConnect(t, ok) ==
    IF t = "reader" THEN "loop"           \* _reconnect swallows the result
    ELSE IF ok THEN ret_main ELSE "exit1" \* main.py: sys.exit(1)

\* connect(): _connect_file / _connect_stream assign a new handle
ConnectOpen(t) ==
    /\ pc[t] = "cn_open"
    /\ \E opened \in BOOLEAN : capture' = IF opened THEN "open" ELSE "failed"
    /\ pc' = [pc EXCEPT ![t] = "cn_warm"]
    /\ UNCHANGED <<rotation, is_open, last_frame, last_frame_time, reader_stop_event,
                   health_stop_event, heap, loc, ret_main, read_errors, now, c_res,
                   c_prev, pub_ts, consecFails, close_returned, engVars, restVars>>

\* connect(): isOpened check, warm-up read, is_open = True
ConnectWarmup(t) ==
    /\ pc[t] = "cn_warm"
    /\ \E ok \in BOOLEAN :
        /\ ok => CanDeliver
        /\ IF ok
           THEN /\ now' = now + 1
                /\ heap' = [heap EXCEPT ![Alloc(heap)] = NewFrame(now + 1)]
                /\ loc' = [loc EXCEPT ![t] = Alloc(heap)]
                /\ is_open' = TRUE
                /\ pc' = [pc EXCEPT ![t] = "cn_pub"]
                /\ consecFails' = IF t = "reader" THEN 0 ELSE consecFails
           ELSE /\ pc' = [pc EXCEPT ![t] = AfterConnect(t, FALSE)]
                /\ consecFails' = IF t = "reader" /\ capture = "open" /\ consecFails < ErrCap
                                  THEN consecFails + 1 ELSE consecFails
                /\ UNCHANGED <<now, heap, loc, is_open>>
    /\ UNCHANGED <<rotation, capture, last_frame, last_frame_time, reader_stop_event,
                   health_stop_event, ret_main, read_errors, c_res, c_prev, pub_ts,
                   close_returned, engVars, restVars>>

\* connect(): _update_frame_buffer(frame), _extract_metadata, return True
ConnectPublish(t) ==
    /\ pc[t] = "cn_pub"
    /\ pub_ts' = heap[loc[t]].ts
    /\ UpdateFrameBuffer(t)
    /\ pc' = [pc EXCEPT ![t] = AfterConnect(t, TRUE)]
    /\ UNCHANGED <<rotation, is_open, capture, reader_stop_event, health_stop_event,
                   ret_main, read_errors, now, c_res, c_prev, consecFails, close_returned, engVars, restVars>>

\* start_reader_loop(): nothing if the thread is alive, else clear the stop
\* event and start the thread
StartReaderLoop ==
    /\ pc["main"] \in {"ready", "build_pipeline"}
    /\ pc["reader"] = "idle"
    /\ reader_stop_event' = FALSE
    /\ pc' = [pc EXCEPT !["reader"] = "loop"]
    /\ UNCHANGED <<rotation, is_open, capture, last_frame, last_frame_time,
                   health_stop_event, heap, loc, ret_main, read_errors, now, c_res,
                   c_prev, pub_ts, consecFails, close_returned, engVars, restVars>>

\* _reader_loop: "while not self.reader_stop_event.is_set()" and "if not self.is_open"
ReaderNextPc ==
    IF reader_stop_event THEN "done"
    ELSE IF ~is_open THEN "rc_release"
    ELSE "read"

ReaderLoop ==
    /\ pc["reader"] = "loop"
    /\ pc' = [pc EXCEPT !["reader"] = ReaderNextPc]
    /\ UNCHANGED <<rotation, is_open, capture, last_frame, last_frame_time,
                   reader_stop_event, health_stop_event, heap, loc, ret_main,
                   read_errors, now, c_res, c_prev, pub_ts, consecFails, close_returned, engVars, restVars>>

\* variant: a handle that cannot be released twice
ReleasedHandle_Once(c) ==
    IF c = "none" THEN "none" ELSE IF c = "released" THEN "invalid" ELSE "released"

\* "if self.capture: self.capture.release()": nothing without a handle, and
\* releasing a released handle changes nothing
ReleasedHandle(c) == IF c = "none" THEN "none" ELSE "released"

\* _reconnect: release the handle
ReconnectRelease ==
    /\ pc["reader"] = "rc_release"
    /\ capture' = ReleasedHandle(capture)
    /\ pc' = [pc EXCEPT !["reader"] = "rc_sleep"]
    /\ UNCHANGED <<rotation, is_open, last_frame, last_frame_time, reader_stop_event,
                   health_stop_event, heap, loc, ret_main, read_errors, now, c_res,
                   c_prev, pub_ts, consecFails, close_returned, engVars, restVars>>

\* _reconnect: time.sleep(self.reconnect_interval), then connect()
ReconnectSleep ==
    /\ pc["reader"] = "rc_sleep"
    /\ pc' = [pc EXCEPT !["reader"] = "cn_open"]
    /\ UNCHANGED <<rotation, is_open, capture, last_frame, last_frame_time,
                   reader_stop_event, health_stop_event, heap, loc, ret_main,
                   read_errors, now, c_res, c_prev, pub_ts, consecFails, close_returned, engVars, restVars>>

\* the counter after one more failed read, and whether that marks the source closed
ErrorsAfterFailure(n) == n + 1

MarksClosed(n) == n > ReadErrorLimit

\* _reader_loop: capture.read(); a failure (ok false, frame None, exception)
\* is counted and, past the limit, marks the source closed
ReaderRead ==
    /\ pc["reader"] = "read"
    /\ \E ok \in BOOLEAN :
        /\ ok => CanDeliver
        /\ ~ok => read_errors < ErrCap
        /\ IF ok
           THEN /\ now' = now + 1
                /\ heap' = [heap EXCEPT ![Alloc(heap)] = NewFrame(now + 1)]
                /\ loc' = [loc EXCEPT !["reader"] = Alloc(heap)]
                /\ pc' = [pc EXCEPT !["reader"] = "got"]
                /\ consecFails' = 0
                /\ UNCHANGED <<read_errors, is_open>>
           ELSE /\ read_errors' = ErrorsAfterFailure(read_errors)
                /\ is_open' = IF MarksClosed(read_errors') THEN FALSE ELSE is_open
                /\ consecFails' = IF consecFails < ErrCap THEN consecFails + 1 ELSE consecFails
                /\ pc' = [pc EXCEPT !["reader"] = "loop"]
                /\ UNCHANGED <<now, heap, loc>>
    /\ UNCHANGED <<rotation, capture, last_frame, last_frame_time, reader_stop_event,
                   health_stop_event, ret_main, c_res, c_prev, pub_ts, close_returned, engVars, restVars>>

\* _reader_loop: a good frame is published and the counter reset
ReaderPublish ==
    /\ pc["reader"] = "got"
    /\ pub_ts' = heap[loc["reader"]].ts
    /\ UpdateFrameBuffer("reader")
    /\ read_errors' = 0
    /\ pc' = [pc EXCEPT !["reader"] = "loop"]
    /\ UNCHANGED <<rotation, is_open, capture, reader_stop_event, health_stop_event,
                   ret_main, now, c_res, c_prev, consecFails, close_returned, engVars, restVars>>

\* ------------------------------------------------------------- read()
\* read(): "if not self.is_open: return False, None"
\* variant: read() without the is_open test
ReadClosed_Never == FALSE

ReadClosed == ~is_open

\* The call drops the frame the caller held from the previous call; c_res
\* notes what the call saw, c_prev the capture time of the last frame returned.
ReadCheck ==
    /\ pc["client"] = "idle"
    /\ c_res' = [NoResult EXCEPT !.sawOpen = is_open, !.latest = pub_ts]
    /\ c_prev' = IF c_res.ok THEN c_res.ts ELSE c_prev
    /\ loc' = [loc EXCEPT !["client"] = 0]
    /\ heap' = Gc(heap, Roots(last_frame, loc'))
    /\ pc' = [pc EXCEPT !["client"] = IF ReadClosed THEN "idle" ELSE "rd_lock"]
    /\ UNCHANGED <<rotation, is_open, capture, last_frame, last_frame_time,
                   reader_stop_event, health_stop_event, ret_main, read_errors, now,
                   pub_ts, consecFails, close_returned, engVars, restVars>>

\* variant: read() hands out the buffered array itself
FrameCopy_Alias(h, f) == f

\* the object read() hands out: self._last_frame.copy()
FrameCopy(h, f) == Alloc(h)

\* read(): under the lock, None if the buffer is empty, else a copy
ReadLocked ==
    /\ pc["client"] = "rd_lock"
    /\ HasFree(heap)
    /\ IF last_frame = 0
       THEN /\ c_res' = [c_res EXCEPT !.latest = pub_ts]
            /\ UNCHANGED <<loc, heap>>
       ELSE /\ loc' = [loc EXCEPT !["client"] = FrameCopy(heap, last_frame)]
            /\ heap' = [heap EXCEPT ![FrameCopy(heap, last_frame)] = heap[last_frame]]
            /\ c_res' = [ok |-> TRUE, ts |-> heap[last_frame].ts, sawOpen |-> c_res.sawOpen,
                         latest |-> pub_ts, fresh |-> loc'["client"] # last_frame,
                         clean |-> ~heap[last_frame].dirty]
    /\ UNCHANGED c_prev
    /\ pc' = [pc EXCEPT !["client"] = "idle"]
    /\ UNCHANGED <<rotation, is_open, capture, last_frame, last_frame_time,
                   reader_stop_event, health_stop_event, ret_main, read_errors, now,
                   pub_ts, consecFails, close_returned, engVars, restVars>>

\* the consumer writes into the frame it was given
ClientMutate ==
    /\ pc["client"] = "idle"
    /\ loc["client"] # 0
    /\ ~heap[loc["client"]].dirty
    /\ heap' = [heap EXCEPT ![loc["client"]].dirty = TRUE]
    /\ UNCHANGED <<rotation, is_open, capture, last_frame, last_frame_time,
                   reader_stop_event, health_stop_event, pc, loc, ret_main, read_errors,
                   now, c_res, c_prev, pub_ts, consecFails, close_returned, engVars, restVars>>

\* ------------------------------------------------------------- close()
\* the application calls close()
CallClose ==
    /\ pc["main"] = "ready"
    /\ pc' = [pc EXCEPT !["main"] = "cl_open"]
    /\ close_ret' = "closed"
    /\ UNCHANGED <<camData, restVars, ret_main, shutdown_event, handler, signals, frame_count,
                   stage_i, calls, subs, abort_at, frame_result>>

\* close(): self.is_open = False
CloseMark ==
    /\ pc["main"] = "cl_open"
    /\ is_open' = FALSE
    /\ pc' = [pc EXCEPT !["main"] = "cl_stop"]
    /\ UNCHANGED <<rotation, capture, last_frame, last_frame_time, reader_stop_event,
                   health_stop_event, heap, loc, ret_main, read_errors, now, c_res,
                   c_prev, pub_ts, consecFails, close_returned, engVars, restVars>>

\* close(): reader_stop_event.set(); health_stop_event.set()
CloseStop ==
    /\ pc["main"] = "cl_stop"
    /\ reader_stop_event' = TRUE
    /\ health_stop_event' = TRUE
    /\ pc' = [pc EXCEPT !["main"] = "cl_join"]
    /\ UNCHANGED <<rotation, is_open, capture, last_frame, last_frame_time, heap, loc,
                   ret_main, read_errors, now, c_res, c_prev, pub_ts, consecFails,
                   close_returned, engVars, restVars>>

\* positions in which the reader can stay longer than the 2 s join budget:
\* the reconnect wait (5 s), connect (codec probe up to 5 s), a blocked read
ReaderBlocking == {"rc_sleep", "cn_open", "cn_warm", "read"}

\* close(): reader_thread.join(timeout=2) returns when the thread has ended
\* or when the budget is spent
JoinReturns == pc["reader"] \in {"idle", "done"} \cup ReaderBlocking

CloseJoin ==
    /\ pc["main"] = "cl_join"
    /\ JoinReturns
    /\ pc' = [pc EXCEPT !["main"] = "cl_release"]
    /\ UNCHANGED <<rotation, is_open, capture, last_frame, last_frame_time,
                   reader_stop_event, health_stop_event, heap, loc, ret_main,
                   read_errors, now, c_res, c_prev, pub_ts, consecFails, close_returned, engVars, restVars>>

\* close(): capture.release(); return - to the interrupted close() when the
\* call came from the signal handler inside one, else to the caller
CloseRelease ==
    /\ pc["main"] = "cl_release"
    /\ capture' = ReleasedHandle(capture)
    /\ pc' = [pc EXCEPT !["main"] = IF sig_ret # "none" THEN sig_ret ELSE close_ret]
    /\ sig_ret' = "none"
    /\ close_returned' = TRUE
    /\ closes' = closes + 1
    /\ UNCHANGED <<rotation, is_open, last_frame, last_frame_time, reader_stop_event,
                   health_stop_event, heap, loc, ret_main, read_errors, now, c_res,
                   c_prev, pub_ts, consecFails, engVars, sinkVars, extVars>>

\* the application calls connect() on the new object
CallConnect ==
    /\ pc["main"] = "new"
    /\ pc' = [pc EXCEPT !["main"] = "cn_open"]
    /\ ret_main' = "ready"
    /\ UNCHANGED <<rotation, is_open, capture, last_frame, last_frame_time,
                   reader_stop_event, health_stop_event, heap, loc, read_errors, now,
                   c_res, c_prev, pub_ts, consecFails, close_returned, engVars, restVars>>

\* the application calls close() on a source it has closed already
CallCloseAgain ==
    /\ pc["main"] = "closed"
    /\ closes < MaxCloses
    /\ pc' = [pc EXCEPT !["main"] = "cl_open"]
    /\ close_ret' = "closed"
    /\ UNCHANGED <<camData, restVars, ret_main, shutdown_event, handler, signals,
                   frame_count, stage_i, calls, subs, abort_at, frame_result>>

\* _signal_handler: SIGINT / SIGTERM calls close() on the main thread's stack,
\* wherever the application is, inside close() too
SignalClose ==
    /\ signals < MaxSignals
    /\ handler = "camera"
    /\ pc["main"] \in {"ready", "closed", "cl_open", "cl_stop", "cl_join", "cl_release"}
    /\ sig_ret = "none"
    /\ signals' = signals + 1
    /\ sig_ret' = IF pc["main"] \in {"ready", "closed"} THEN "none" ELSE pc["main"]
    /\ close_ret' = IF pc["main"] \in {"ready", "closed"} THEN pc["main"] ELSE close_ret
    /\ pc' = [pc EXCEPT !["main"] = "cl_open"]
    /\ UNCHANGED <<camData, closes, sinkVars, extVars, ret_main, shutdown_event, handler,
                   frame_count, stage_i, calls, subs, abort_at, frame_result>>

\* =================================================================
\* FrameHealthValidator (health.py)
\* =================================================================
\* A frame is known by what the checks measure on it: the entropy of its
\* grey levels (tenths), the share of pixels above 220 (hundredths), the
\* variance of its Laplacian and its mean intensity; kind tells None
\* ("none") and an array of size 0 ("empty") from an image.
NoImage(kind) == [kind |-> kind, entropy |-> 0, white |-> 0, lap |-> 0, mean |-> 0]

Images ==
    [kind : {"image"},
     entropy : {entropy_thresh - 1, entropy_thresh, entropy_thresh + 1},
     white : {white_thresh - 1, white_thresh, white_thresh + 1},
     lap : {blur_thresh - 1, blur_thresh, blur_thresh + 1},
     mean : {black_thresh - 1, black_thresh, black_thresh + 1}]

Frames == {NoImage("none"), NoImage("empty")} \cup Images

Reason(code, val) == [code |-> code, val |-> val]

\* variant: the white-screen test only for a frame that passed the entropy test
CheckGlitch_FirstOnly(f) ==
    IF f.entropy < entropy_thresh
    THEN <<Reason("Low Entropy/Glitch", f.entropy)>>
    ELSE IF f.white > white_thresh THEN <<Reason("White Screen", f.white)>> ELSE <<>>

\* _check_glitch: the reasons of the entropy test and of the white-screen test
CheckGlitch(f) ==
    (IF f.entropy < entropy_thresh
     THEN <<Reason("Low Entropy/Glitch", f.entropy)>> ELSE <<>>)
    \o (IF f.white > white_thresh THEN <<Reason("White Screen", f.white)>> ELSE <<>>)

\* _check_black_screen
CheckBlackScreen(f) == f.mean < black_thresh

\* _check_blur
CheckBlur(f) == f.lap < blur_thresh

\* validate(frame): (is_healthy, reasons); ran notes the checks that were run
Validate(f) ==
    IF f.kind \in {"none", "empty"}
    THEN [healthy |-> FALSE, reasons |-> <<Reason("Empty Frame", 0)>>, ran |-> {}]
    ELSE LET reasons ==
                 CheckGlitch(f)
                 \o (IF CheckBlackScreen(f) THEN <<Reason("Black Screen", f.mean)>> ELSE <<>>)
                 \o (IF CheckBlur(f) THEN <<Reason("Blurry", f.lap)>> ELSE <<>>)
         IN [healthy |-> Len(reasons) = 0, reasons |-> reasons,
             ran |-> {"glitch", "black", "blur"}]

\* validate() is called on a frame
ValidateOnce ==
    /\ fn_arg \in Frames
    /\ fn_res = <<>>
    /\ fn_res' = <<Validate(fn_arg)>>
    /\ UNCHANGED <<camVars, engVars, closeVars, moreVars, sinkVars, gets, buildVars, fn_arg,
                   detVars, healthVars>>

\* ------------------------------------------------------ health monitor
\* start_health_monitor(): nothing if the thread is alive, else clear the
\* stop event and start the thread
StartHealthMonitor ==
    /\ pc["main"] = "ready"
    /\ pc["health"] = "idle"
    /\ health_stop_event' = FALSE
    /\ pc' = [pc EXCEPT !["health"] = "loop"]
    /\ UNCHANGED <<rotation, is_open, capture, last_frame, last_frame_time,
                   reader_stop_event, heap, loc, ret_main, read_errors, now, c_res,
                   c_prev, pub_ts, consecFails, close_returned, engVars, restVars>>

\* _health_loop: "while not self.health_stop_event.is_set()", then
\* time.sleep(interval)
HealthLoop ==
    /\ pc["health"] = "loop"
    /\ pc' = [pc EXCEPT !["health"] = IF health_stop_event THEN "done" ELSE "sleep"]
    /\ UNCHANGED <<rotation, is_open, capture, last_frame, last_frame_time,
                   reader_stop_event, health_stop_event, heap, loc, ret_main,
                   read_errors, now, c_res, c_prev, pub_ts, consecFails, close_returned,
                   engVars, restVars>>

\* "time.time() - self._last_frame_time < threshold": recent tells whether
\* the last publication is less than the threshold ago; _last_frame_time is
\* 0.0 until a frame has been published, which is never recent
SignalFresh(recent, lft) == lft # 0 /\ recent

\* _health_loop: the sleep is over; check 1, signal freshness
HealthMeasure ==
    /\ pc["health"] = "sleep"
    /\ \E recent \in BOOLEAN : is_connected' = SignalFresh(recent, last_frame_time)
    /\ pc' = [pc EXCEPT !["health"] = "sample"]
    /\ UNCHANGED <<rotation, is_open, capture, last_frame, last_frame_time,
                   reader_stop_event, health_stop_event, heap, loc, ret_main,
                   read_errors, now, c_res, c_prev, pub_ts, consecFails, close_returned,
                   engVars, closeVars, moreVars, sinkVars, gets, buildVars, pureVars, detVars,
                   is_corrupted, health_issues, h_ticked, h_checked>>

\* variant: the tick takes the frame out of the buffer
BufferAfterSample_Taken(lf) == 0

\* the with block assigns frame_sample only
BufferAfterSample(lf) == lf

\* _health_loop: under the lock, frame_sample = self._last_frame.copy() if
\* there is a frame
HealthSample ==
    /\ pc["health"] = "sample"
    /\ HasFree(heap)
    /\ IF last_frame = 0
       THEN UNCHANGED <<loc, heap>>
       ELSE /\ loc' = [loc EXCEPT !["health"] = FrameCopy(heap, last_frame)]
            /\ heap' = [heap EXCEPT ![FrameCopy(heap, last_frame)] = heap[last_frame]]
    /\ last_frame' = BufferAfterSample(last_frame)
    /\ pc' = [pc EXCEPT !["health"] = "report"]
    /\ UNCHANGED <<rotation, is_open, capture, last_frame_time, reader_stop_event,
                   health_stop_event, ret_main, read_errors, now, c_res, c_prev, pub_ts,
                   consecFails, close_returned, engVars, restVars>>

\* variant: the image checks whenever there is a sample
HealthChecksFrame_AnySample(connected, sample) == sample # 0

\* "if self.is_connected and frame_sample is not None"
HealthChecksFrame(connected, sample) == connected /\ sample # 0

Disconnected == <<Reason("Disconnected", 0)>>

\* what the sampled frame can look like: a good image, a blurred one, a
\* white screen of low entropy
SampleImages ==
    {[kind |-> "image", entropy |-> entropy_thresh + 1, white |-> white_thresh - 1,
      lap |-> lap, mean |-> black_thresh + 1] : lap \in {blur_thresh - 1, blur_thresh}}
    \cup {[kind |-> "image", entropy |-> entropy_thresh - 1, white |-> white_thresh + 1,
            lap |-> blur_thresh, mean |-> black_thresh + 1]}

\* _health_loop: check 2, image integrity, on the sample: validate() gives
\* the report or raises, which the except clause logs; without the checks
\* the report is "not corrupted, Disconnected". The tick is over, the sample
\* is dropped.
HealthReport ==
    /\ pc["health"] = "report"
    /\ IF HealthChecksFrame(is_connected, loc["health"])
       THEN /\ \E f \in SampleImages, raises \in BOOLEAN :
                IF raises
                THEN UNCHANGED <<is_corrupted, health_issues>>
                ELSE /\ is_corrupted' = ~Validate(f).healthy
                     /\ health_issues' = Validate(f).reasons
            /\ h_checked' = TRUE
       ELSE /\ is_corrupted' = FALSE
            /\ health_issues' = Disconnected
            /\ h_checked' = FALSE
    /\ h_ticked' = TRUE
    /\ loc' = [loc EXCEPT !["health"] = 0]
    /\ heap' = Gc(heap, Roots(last_frame, loc'))
    /\ pc' = [pc EXCEPT !["health"] = "loop"]
    /\ UNCHANGED <<rotation, is_open, capture, last_frame, last_frame_time,
                   reader_stop_event, health_stop_event, ret_main, read_errors, now,
                   c_res, c_prev, pub_ts, consecFails, close_returned, engVars,
                   closeVars, moreVars, sinkVars, gets, buildVars, pureVars, detVars, is_connected>>

\* ------------------------------------------------ connect(), in detail
\* the ways to open the source: "file" for a video file; for a stream the
\* GStreamer pipeline of either codec and FFmpeg
Variants == {"file", "gst_h264", "gst_h265", "ffmpeg"}

Codecs == {"h264", "h265"}

\* _gst_pipeline(uri, codec): the h264 elements for "h264", the h265 ones otherwise
GstVariant(codec) == IF codec = "h264" THEN "gst_h264" ELSE "gst_h265"

\* alt_codec = "h264" if preferred_codec == "h265" else "h265"
AltCodec(preferred_codec) == IF preferred_codec = "h265" THEN "h264" ELSE "h265"

\* _connect_stream: the variants it assigns to self.capture, in order; opens
\* tells which variants give a handle that isOpened()
ConnectStream(preferred_codec, opens) ==
    LET first == <<GstVariant(preferred_codec)>>
        second == IF ~opens[first[1]]
                  THEN Append(first, GstVariant(AltCodec(preferred_codec)))
                  ELSE first
    IN IF ~opens[second[Len(second)]] THEN Append(second, "ffmpeg") ELSE second

\* "self.fps = self.capture.get(cv2.CAP_PROP_FPS) or 30.0"
ExtractFps(cap_fps) == IF cap_fps = 0 THEN 30 ELSE cap_fps

\* _extract_metadata: width and height of the frame, swapped for 90 and 270
ExtractSize(shape, rot) ==
    IF rot \in {90, 270} THEN [width |-> shape.h, height |-> shape.w]
    ELSE [width |-> shape.w, height |-> shape.h]

\* connect() on a new IP_Camera: what it tried, what it returns and the
\* fields it leaves. warm_ok: the warm-up read of an opened handle gives a frame.
Connect(arg) ==
    LET tried == IF arg.is_video_file THEN <<"file">>
                 ELSE ConnectStream(arg.codec, arg.opens)
        opened == arg.opens[tried[Len(tried)]]
        ok == opened /\ arg.warm_ok
    IN [ret |-> ok,
        tried |-> tried,
        opened |-> opened,
        is_open |-> ok,
        buffered |-> ok,
        fps |-> IF ok THEN ExtractFps(arg.cap_fps) ELSE 0,
        size |-> IF ok THEN ExtractSize(arg.shape, arg.rotation)
                 ELSE [width |-> 0, height |-> 0]]

ConnectArgs ==
    [is_video_file : BOOLEAN, codec : Codecs, opens : [Variants -> BOOLEAN],
     warm_ok : BOOLEAN, cap_fps : {0, 25}, shape : {[h |-> 480, w |-> 640]},
     rotation : {0, 90}]

\* the application calls connect() once
ConnectOnce ==
    /\ fn_arg \in ConnectArgs
    /\ fn_res = <<>>
    /\ fn_res' = <<Connect(fn_arg)>>
    /\ UNCHANGED <<camVars, engVars, closeVars, moreVars, sinkVars, gets, buildVars, fn_arg,
                   detVars, healthVars>>

\* =================================================================
\* DynamicEngine (main.py)
\* =================================================================
Prefix(n) == [k \in 1..n |-> k]

Outcomes == {"payload", "none", "raise"}   \* what a stage's process() can do

MainStopped == pc["main"] \in {"exit1", "crashed", "closed"}

InClose == pc["main"] \in {"cl_open", "cl_stop", "cl_join", "cl_release"}

\* SIGINT / SIGTERM reaches the main thread. signal_handler is installed at
\* module level; IP_Camera.__init__ then installs _signal_handler over it,
\* which calls close() on the main thread's stack.
Signal ==
    /\ signals < MaxSignals
    /\ ~MainStopped
    /\ ~InClose
    /\ signals' = signals + 1
    /\ IF handler = "main"
       THEN /\ shutdown_event' = TRUE
            /\ UNCHANGED <<pc, close_ret>>
       ELSE /\ close_ret' = pc["main"]
            /\ pc' = [pc EXCEPT !["main"] = "cl_open"]
            /\ UNCHANGED shutdown_event
    /\ UNCHANGED <<camData, restVars, ret_main, handler, frame_count, stage_i, calls, subs,
                   abort_at, frame_result>>

\* load_configuration: read the pipeline JSON (sys.exit(1) on failure), build
\* the IP_Camera, call connect()
LoadConfiguration ==
    /\ pc["main"] = "load_configuration"
    /\ \E json_ok \in BOOLEAN :
        IF json_ok
        THEN /\ handler' = "camera"
             /\ pc' = [pc EXCEPT !["main"] = "cn_open"]
             /\ ret_main' = "build_pipeline"
        ELSE /\ pc' = [pc EXCEPT !["main"] = "exit1"]
             /\ UNCHANGED <<handler, ret_main>>
    /\ UNCHANGED <<camData, restVars, close_ret, shutdown_event, signals, frame_count, stage_i,
                   calls, subs, abort_at, frame_result>>

\* variant: a stage that cannot be built is left out of the pipeline
AfterStageFailure_Skips == "run"

\* build_pipeline: "except Exception as e: ... sys.exit(1)"
AfterStageFailure == "exit1"

\* build_pipeline: one turn of the loop over the descriptor: import the
\* module, instantiate the class and append the instance, or log and exit
BuildPipeline ==
    /\ pc["main"] = "build_pipeline"
    /\ \E ok \in BOOLEAN :
        IF ok
        THEN /\ built' = built + 1
             /\ pc' = [pc EXCEPT !["main"] =
                          IF built' = NumStages THEN "run" ELSE "build_pipeline"]
             /\ UNCHANGED failed_stage
        ELSE /\ failed_stage' = built + 1
             /\ pc' = [pc EXCEPT !["main"] = AfterStageFailure]
             /\ UNCHANGED built
    /\ UNCHANGED <<camData, closeVars, moreVars, sinkVars, gets, pureVars, detVars, healthVars,
                   ret_main, engVars>>

\* variant: the while test without the shutdown event
LoopContinues_IgnoresShutdown == is_open

\* run: "while not shutdown_event.is_set() and self.camera.is_open"
LoopContinues == ~shutdown_event /\ is_open

RunLoop ==
    /\ pc["main"] = "run"
    /\ pc' = [pc EXCEPT !["main"] = IF LoopContinues THEN "capture" ELSE "cleanup"]
    /\ UNCHANGED <<camData, restVars, ret_main, engVars>>

\* run: ret, frame = self.camera.capture.read(); on success the payload is built
Capture ==
    /\ pc["main"] = "capture"
    /\ \E got \in BOOLEAN :
        /\ got => (capture = "open" /\ frame_count < MaxFrames)
        /\ IF got
           THEN /\ stage_i' = 1
                /\ calls' = <<>>
                /\ subs' = {}
                /\ abort_at' = 0
                /\ frame_result' = "running"
                /\ pc' = [pc EXCEPT !["main"] = "stage"]
           ELSE /\ pc' = [pc EXCEPT !["main"] = "run"]
                /\ UNCHANGED <<stage_i, calls, subs, abort_at, frame_result>>
    /\ UNCHANGED <<camData, restVars, ret_main, close_ret, shutdown_event, handler, signals,
                   frame_count>>

\* variant: the loop steps over a stage
NextStage_Skips(i) == i + 2

\* the for loop over self.pipeline_modules
NextStage(i) == i + 1

\* variant: no break on None
BreaksLoop_Never(out) == FALSE

\* "if payload is None: break"
BreaksLoop(out) == out = "none"

\* a stage error leaves the while loop: the try encloses it
AfterRaise == "cleanup"

\* run: payload = module.process(payload) for the stage the loop is at.
\* calls, subs, abort_at and frame_result are history: abort_at notes that the
\* stage returned None, whatever the loop does next.
Stage ==
    /\ pc["main"] = "stage"
    /\ \E out \in Outcomes, submits \in BOOLEAN :
        /\ calls' = Append(calls, stage_i)
        /\ subs' = IF submits THEN subs \cup {stage_i} ELSE subs
        /\ IF out = "raise"
           THEN /\ frame_result' = "raised"
                /\ pc' = [pc EXCEPT !["main"] = AfterRaise]
                /\ UNCHANGED <<stage_i, abort_at, frame_count>>
           ELSE IF BreaksLoop(out)
           THEN /\ abort_at' = stage_i
                /\ frame_result' = "aborted"
                /\ frame_count' = frame_count + 1
                /\ pc' = [pc EXCEPT !["main"] = "run"]
                /\ UNCHANGED stage_i
           ELSE IF NextStage(stage_i) > NumStages
           THEN /\ abort_at' = IF out = "none" THEN stage_i ELSE abort_at
                /\ frame_result' = "completed"
                /\ frame_count' = frame_count + 1
                /\ pc' = [pc EXCEPT !["main"] = "run"]
                /\ UNCHANGED stage_i
           ELSE /\ abort_at' = IF out = "none" THEN stage_i ELSE abort_at
                /\ stage_i' = NextStage(stage_i)
                /\ UNCHANGED <<frame_result, frame_count, pc>>
    /\ UNCHANGED <<camData, restVars, ret_main, close_ret, shutdown_event, handler, signals>>

\* cleanup: self.camera.disconnect() - IP_Camera has no such method, the
\* AttributeError leaves cleanup() and run()
Cleanup ==
    /\ pc["main"] = "cleanup"
    /\ pc' = [pc EXCEPT !["main"] = "crashed"]
    /\ UNCHANGED <<camData, restVars, ret_main, engVars>>

\* cleanup: the close() hooks invoked so far, in order. The loop over
\* pipeline_modules comes after camera.disconnect(), so none is invoked
\* before that call has returned.
StagesClosed == IF pc["main"] = "cleaned" THEN Prefix(NumStages) ELSE <<>>

\* the status the process ends with, -1 while it runs: sys.exit(1) in
\* load_configuration and build_pipeline, an exception that leaves run()
\* uncaught, the end of the script
ExitStatus ==
    CASE pc["main"] = "exit1" -> 1
      [] pc["main"] = "crashed" -> 1
      [] pc["main"] = "cleaned" -> 0
      [] OTHER -> 0 - 1

\* =================================================================
\* MetadataHandler (metadata_handler.py)
\* =================================================================
\* payload['meta'].get('track_ids_info'): absent, an empty map, a map with tracks
TrackMaps == {"missing", "empty", "some"}

Payloads == [frame_number : 1..MaxRecords, tracks : TrackMaps]

NoCall == [payload |-> [frame_number |-> 0, tracks |-> "missing"],
           returned |-> [frame_number |-> 0, tracks |-> "missing"],
           queued |-> <<>>, made |-> FALSE, busy |-> FALSE]

NoClose == [called |-> FALSE, buffer |-> <<>>, queue |-> <<>>, inserts |-> 0]

\* variant: "if track_info is not None"
Truthy_NotNone(tracks) == tracks # "missing"

\* "if track_info:" - None and {} are false
Truthy(tracks) == tracks = "some"

\* the item process() builds from the payload: the record of that frame
Item(payload) == payload.frame_number

\* variant: a queue that hands out the newest item first
QueueAfterPut_Front(q, put) == put \o q

\* data_queue.put(item) on a queue.Queue, which get() reads from the other
\* end: first in, first out
QueueAfterPut(q, put) == q \o put

\* process(payload): queue the item if there are tracks, return the payload.
\* data_queue is unbounded, put() does not wait.
Process ==
    /\ spc = "run"
    /\ submitted < MaxRecords
    /\ \E tracks \in TrackMaps :
        LET payload == [frame_number |-> submitted + 1, tracks |-> tracks]
            put == IF Truthy(tracks) THEN <<Item(payload)>> ELSE <<>>
        IN /\ data_queue' = QueueAfterPut(data_queue, put)
           /\ last_call' = [payload |-> payload, returned |-> payload, queued |-> put,
                            made |-> TRUE, busy |-> (wpc = "flush" /\ w_wait > 0)]
    /\ submitted' = submitted + 1
    /\ UNCHANGED <<camVars, engVars, closeVars, extVars, clock, stop_event, buffer,
                   last_flush_time, wpc, w_wait, spc, join_left, inserts, at_close>>

\* _batch_worker: "while not self.stop_event.is_set()"
WorkerLoop ==
    /\ wpc = "loop"
    /\ wpc' = IF stop_event THEN "final" ELSE "get"
    /\ w_wait' = IF stop_event THEN 0 ELSE PollTimeout
    /\ UNCHANGED <<camVars, engVars, closeVars, extVars, clock, data_queue, stop_event, buffer,
                   last_flush_time, spc, join_left, submitted, last_call, inserts, at_close>>

\* variant: whatever _format_metadata returned goes into the buffer
BufferAfterGet_KeepsNone(buf, item, mongo_obj) == Append(buf, item)

\* "if mongo_obj: buffer.append(mongo_obj)"
BufferAfterGet(buf, item, mongo_obj) == IF mongo_obj THEN Append(buf, item) ELSE buf

\* _batch_worker: data_queue.get returns an item; _format_metadata turns it
\* into a document, or logs and returns None on a formatting error; a
\* document is buffered
WorkerGet ==
    /\ wpc = "get"
    /\ data_queue # <<>>
    /\ data_queue' = Tail(data_queue)
    /\ \E mongo_obj \in BOOLEAN :
        /\ buffer' = BufferAfterGet(buffer, Head(data_queue), mongo_obj)
        /\ gets' = Append(gets, [item |-> Head(data_queue), ok |-> mongo_obj])
    /\ wpc' = "check"
    /\ w_wait' = 0
    /\ UNCHANGED <<camVars, engVars, closeVars, moreVars, buildVars, pureVars, detVars, healthVars,
                   clock, stop_event, last_flush_time, spc, join_left, submitted,
                   last_call, inserts, at_close>>

\* _batch_worker: data_queue.get times out after 1 s: queue.Empty, pass
WorkerEmpty ==
    /\ wpc = "get"
    /\ data_queue = <<>>
    /\ w_wait = 0
    /\ wpc' = "check"
    /\ UNCHANGED <<camVars, engVars, closeVars, extVars, clock, data_queue, stop_event, buffer,
                   last_flush_time, w_wait, spc, join_left, submitted, last_call, inserts,
                   at_close>>

\* variant: full only past batch_size
IsBufferFull_Past(buf) == Len(buf) > batch_size

\* "is_buffer_full = len(buffer) >= self.batch_size"
IsBufferFull(buf) == Len(buf) >= batch_size

\* "is_time_up = time_since_flush >= self.flush_interval"
IsTimeUp(t, last) == t - last >= flush_interval

\* variant: both conditions required
FlushDue_Both(buf, t, last) == buf # <<>> /\ (IsBufferFull(buf) /\ IsTimeUp(t, last))

\* "if buffer and (is_buffer_full or is_time_up)"
FlushDue(buf, t, last) == buf # <<>> /\ (IsBufferFull(buf) \/ IsTimeUp(t, last))

\* _batch_worker: check the flush conditions; a due flush calls _flush_to_db,
\* whose bulk insert takes some time
WorkerCheck ==
    /\ wpc = "check"
    /\ IF FlushDue(buffer, clock, last_flush_time)
       THEN /\ wpc' = "flush"
            /\ \E d \in 0..MaxInsertTime : w_wait' = d
       ELSE /\ wpc' = "loop"
            /\ UNCHANGED w_wait
    /\ UNCHANGED <<camVars, engVars, closeVars, extVars, clock, data_queue, stop_event, buffer,
                   last_flush_time, spc, join_left, submitted, last_call, inserts, at_close>>

\* variant: a failed batch is kept for the next flush
BufferAfterFlush_Retry(buf, ok) == IF ok THEN <<>> ELSE buf

\* "self._flush_to_db(buffer); buffer = []": _flush_to_db catches the
\* exception of a failed insert, the buffer is cleared either way
BufferAfterFlush(buf, ok) == <<>>

\* _batch_worker: the bulk insert returns or raises; clear the buffer, note the time
WorkerFlush ==
    /\ wpc = "flush"
    /\ w_wait = 0
    /\ \E ok \in BOOLEAN :
        /\ inserts' = Append(inserts, [batch |-> buffer, ok |-> ok, final |-> FALSE])
        /\ buffer' = BufferAfterFlush(buffer, ok)
    /\ last_flush_time' = clock
    /\ wpc' = "loop"
    /\ UNCHANGED <<camVars, engVars, closeVars, extVars, clock, data_queue, stop_event, w_wait, spc,
                   join_left, submitted, last_call, at_close>>

\* variant: no flush on exit
FinalFlushDue_Never(buf) == FALSE

\* "if buffer:" after the loop
FinalFlushDue(buf) == buf # <<>>

\* _batch_worker: the loop is left; final flush if anything is buffered
WorkerFinal ==
    /\ wpc = "final"
    /\ IF FinalFlushDue(buffer)
       THEN /\ wpc' = "final_flush"
            /\ \E d \in 0..MaxInsertTime : w_wait' = d
       ELSE /\ wpc' = "done"
            /\ UNCHANGED w_wait
    /\ UNCHANGED <<camVars, engVars, closeVars, extVars, clock, data_queue, stop_event, buffer,
                   last_flush_time, spc, join_left, submitted, last_call, inserts, at_close>>

\* _batch_worker: the final bulk insert returns or raises; the thread ends
WorkerFinalFlush ==
    /\ wpc = "final_flush"
    /\ w_wait = 0
    /\ \E ok \in BOOLEAN :
        inserts' = Append(inserts, [batch |-> buffer, ok |-> ok, final |-> TRUE])
    /\ wpc' = "done"
    /\ UNCHANGED <<camVars, engVars, closeVars, extVars, clock, data_queue, stop_event, buffer,
                   last_flush_time, w_wait, spc, join_left, submitted, last_call, at_close>>

\* close(): stop_event.set(); worker_thread.join(timeout=5) begins
SinkClose ==
    /\ spc = "run"
    /\ stop_event' = TRUE
    /\ spc' = "join"
    /\ join_left' = JoinTimeout
    /\ at_close' = [called |-> TRUE, buffer |-> buffer, queue |-> data_queue,
                    inserts |-> Len(inserts)]
    /\ UNCHANGED <<camVars, engVars, closeVars, extVars, clock, data_queue, buffer,
                   last_flush_time, wpc, w_wait, submitted, last_call, inserts>>

\* close(): the join returns when the worker has ended or after 5 s
SinkJoin ==
    /\ spc = "join"
    /\ wpc = "done" \/ join_left = 0
    /\ spc' = "closed"
    /\ UNCHANGED <<camVars, engVars, closeVars, extVars, clock, data_queue, stop_event, buffer,
                   last_flush_time, wpc, w_wait, join_left, submitted, last_call, inserts,
                   at_close>>

\* the worker is in a wait that takes time: the queue poll on an empty queue,
\* a bulk insert under way; or it has ended
WorkerWaits ==
    \/ wpc = "done"
    \/ wpc = "get" /\ data_queue = <<>> /\ w_wait > 0
    \/ wpc \in {"flush", "final_flush"} /\ w_wait > 0

\* the owner is outside the sink or waits in the join
OwnerWaits ==
    \/ spc \in {"run", "closed"}
    \/ spc = "join" /\ wpc # "done" /\ join_left > 0

\* one second passes; every step that is not a wait takes no time
Tick ==
    /\ clock < MaxTime
    /\ WorkerWaits
    /\ OwnerWaits
    /\ clock' = clock + 1
    /\ w_wait' = IF w_wait > 0 THEN w_wait - 1 ELSE 0
    /\ join_left' = IF spc = "join" /\ join_left > 0 THEN join_left - 1 ELSE join_left
    /\ UNCHANGED <<camVars, engVars, closeVars, extVars, data_queue, stop_event, buffer,
                   last_flush_time, wpc, spc, submitted, last_call, inserts, at_close>>

\* ------------------------------------------------- _format_metadata
\* A value is a tagged number: t is its Python type, v the number in tenths
\* (None: t = "none"; the string of a number: t = "str").
Num(t, v) == [t |-> t, v |-> v]

None == Num("none", 0)

\* str(x): "None" for None, which is the string of no number
ToStr(x) == IF x.t = "none" THEN Num("str", 0 - 1) ELSE Num("str", x.v)

\* int(x): truncation
ToInt(x) == Num("int", (x.v \div 10) * 10)

\* float(x)
ToFloat(x) == Num("float", x.v)

\* details.get(key, default)
Get(details, key, default) == IF key \in DOMAIN details THEN details[key] ELSE default

\* variant: the class id is read from the key it is written to
LabelKey_Same == "label"

\* "label": int(details.get("label_id", 0))
LabelKey == "label_id"

\* the entry _format_metadata builds for one track
FormatTrack(details) ==
    [track_id |-> ToStr(Get(details, "track_id", None)),
     bbox |-> LET bbox == Get(details, "bbox", <<>>)
              IN [k \in 1..Len(bbox) |-> ToInt(bbox[k])],
     confidence |-> ToFloat(Get(details, "confidence", Num("float", 0))),
     label |-> ToInt(Get(details, LabelKey, Num("int", 0))),
     label_name |-> Get(details, "label_name", "unknown"),
     instance_dict |-> Get(details, "instance_dict", "empty")]

\* track entries as the predictor hands them over
RawTracks ==
    [track_id : {Num("int", 70), Num("str", 70)},
     bbox : {<<Num("float", 105), Num("float", 209)>>, <<Num("int", 10), Num("int", 20)>>},
     confidence : {Num("float", 5), Num("int", 10)},
     label_id : {Num("int", 0), Num("int", 10), Num("int", 20)},
     label_name : {"person", "head"},
     instance_dict : {"empty", "inside"}]

\* _format_metadata on a track entry: first the predictor's, then the one
\* that was stored
FormatMetadata ==
    /\ fn_arg \in RawTracks
    /\ Len(fn_res) < 2
    /\ fn_res' = Append(fn_res, FormatTrack(IF fn_res = <<>> THEN fn_arg ELSE fn_res[1]))
    /\ UNCHANGED <<camVars, engVars, closeVars, moreVars, sinkVars, gets, buildVars, fn_arg,
                   detVars, healthVars>>

\* =================================================================
\* Detector (detector.py): its own capture loop and the helper threads
\* =================================================================
\* process(): "while self.ip_camera.is_open and self.cam_result", the frame
\* is read from the handle, frame_number taken from the stream position
DetectorRead ==
    /\ d_pc = "loop"
    /\ is_open
    /\ capture = "open"
    /\ d_frame_number < MaxPredicts
    /\ d_frame_number' = d_frame_number + 1
    /\ d_pc' = "predict"
    /\ UNCHANGED <<camVars, engVars, closeVars, moreVars, sinkVars, gets, buildVars, pureVars,
                   helpers, zm_in, zm_done, healthVars>>

\* process_detection_results_thread: the thread is started and returned;
\* predict drops the handle, nobody joins it
HelpersAfterSpawn(hs, n) == hs \cup {n}

\* predict(frame, current_time, frame_number): artifacts submitted, tracks
\* predicted, the record of the frame handed to a new helper thread
DetectorPredict ==
    /\ d_pc = "predict"
    /\ helpers' = HelpersAfterSpawn(helpers, d_frame_number)
    /\ d_pc' = "zone"
    /\ UNCHANGED <<camVars, engVars, closeVars, moreVars, sinkVars, gets, buildVars, pureVars,
                   d_frame_number, zm_in, zm_done, healthVars>>

\* the thread of Detector.process(), as a user of the Zone Manager; the
\* helper thread of frame n is n
DetectorThread == 0

\* predict: "if getattr(self, "zone_manager", None) and track_ids_dict"
PredictUpdatesZones(tracks) == tracks

\* predict, after the helper thread is started: the call of
\* zone_manager.update_track_ids_status on the same track map, if there
\* are tracks
DetectorZoneEnter ==
    /\ d_pc = "zone"
    /\ \E tracks \in BOOLEAN :
        IF PredictUpdatesZones(tracks)
        THEN /\ zm_in' = zm_in \cup {DetectorThread}
             /\ d_pc' = "in_zone"
        ELSE /\ d_pc' = "loop"
             /\ UNCHANGED zm_in
    /\ UNCHANGED <<camVars, engVars, closeVars, moreVars, sinkVars, gets, buildVars, pureVars,
                   d_frame_number, helpers, zm_done, healthVars>>

\* predict: update_track_ids_status returns, predict returns
DetectorZoneLeave ==
    /\ d_pc = "in_zone"
    /\ zm_in' = zm_in \ {DetectorThread}
    /\ d_pc' = "loop"
    /\ UNCHANGED <<camVars, engVars, closeVars, moreVars, sinkVars, gets, buildVars, pureVars,
                   d_frame_number, helpers, zm_done, healthVars>>

\* process_detection_results in the helper thread of frame n: "if
\* self.zone_manager" holds of the ZoneManager built in __init__, and the
\* thread calls update_track_ids_status
HelperZoneEnter(n) ==
    /\ n \in helpers \ (zm_in \cup zm_done)
    /\ zm_in' = zm_in \cup {n}
    /\ UNCHANGED <<camVars, engVars, closeVars, moreVars, sinkVars, gets, buildVars, pureVars,
                   d_pc, d_frame_number, helpers, zm_done, healthVars>>

\* the helper thread of frame n returns from update_track_ids_status
HelperZoneLeave(n) ==
    /\ n \in zm_in
    /\ n # DetectorThread
    /\ zm_in' = zm_in \ {n}
    /\ zm_done' = zm_done \cup {n}
    /\ UNCHANGED <<camVars, engVars, closeVars, moreVars, sinkVars, gets, buildVars, pureVars,
                   d_pc, d_frame_number, helpers, healthVars>>

\* the keys of the dict process_detection_results hands to the sink
ProcessedData ==
    {"time_stamp", "raw_frame_path", "plotted_frame_path", "frame_number",
     "track_ids_info", "inference_time"}

\* MetadataHandler.process(payload) on that dict: payload['meta'] is a
\* KeyError without the key, else the record of the frame is queued
Submitted(keys, n) == IF "meta" \in keys THEN <<n>> ELSE <<>>

\* process_detection_results in the helper thread of frame n: the call of
\* metadata_handler.process, after which the thread ends
HelperSubmit(n) ==
    /\ n \in zm_done
    /\ data_queue' = data_queue \o Submitted(ProcessedData, n)
    /\ helpers' = helpers \ {n}
    /\ zm_done' = zm_done \ {n}
    /\ UNCHANGED <<camVars, engVars, closeVars, moreVars, gets, buildVars, pureVars, d_pc,
                   d_frame_number, zm_in, healthVars, clock, stop_event, buffer,
                   last_flush_time, wpc, w_wait, spc, join_left, submitted, last_call,
                   inserts, at_close>>

\* =================================================================
\* The frame source used through its API: one application thread
\* (connect, start_reader_loop, close), the reader thread, one consumer
\* =================================================================
CamFields ==
    /\ rotation \in Rotations
    /\ is_open = FALSE
    /\ capture = "none"
    /\ last_frame = 0
    /\ last_frame_time = 0
    /\ reader_stop_event = FALSE
    /\ health_stop_event = FALSE
    /\ heap = [r \in Refs |-> Free]
    /\ pc = [main |-> "new", reader |-> "idle", client |-> "idle",
            health |-> "idle"]
    /\ loc = [main |-> 0, reader |-> 0, client |-> 0, health |-> 0]
    /\ ret_main = "ready"
    /\ read_errors = 0
    /\ now = 0
    /\ c_res = NoResult
    /\ c_prev = 0
    /\ pub_ts = 0
    /\ consecFails = 0
    /\ close_returned = FALSE

EngIdle ==
    /\ close_ret = "closed"
    /\ shutdown_event = FALSE
    /\ handler = "camera"
    /\ signals = 0
    /\ frame_count = 0
    /\ stage_i = 0
    /\ calls = <<>>
    /\ subs = {}
    /\ abort_at = 0
    /\ frame_result = "none"

CloseIdle ==
    /\ sig_ret = "none"
    /\ closes = 0

\* build_pipeline has not begun
BuildIdle ==
    /\ built = 0
    /\ failed_stage = 0

\* no function under test
PureIdle ==
    /\ fn_arg = <<>>
    /\ fn_res = <<>>

\* no Detector
DetIdle ==
    /\ d_pc = "off"
    /\ d_frame_number = 0
    /\ helpers = {}
    /\ zm_in = {}
    /\ zm_done = {}

\* __init__: the health report before the first tick
HealthIdle ==
    /\ is_connected = FALSE
    /\ is_corrupted = FALSE
    /\ health_issues = <<>>
    /\ h_ticked = FALSE
    /\ h_checked = FALSE

\* the stream has not dropped, no time has passed
ReconIdle ==
    /\ drops = 0
    /\ drop_ts = 0
    /\ outage = 0
    /\ tick_pos = <<>>
    /\ tick_n = 0

\* no record
RecIdle ==
    /\ rec_pc = "none"
    /\ track_ids_info = 0
    /\ instance_dict = "outside"
    /\ formatted_tracks = 0
    /\ at_submit = <<>>
    /\ inserted_doc = <<>>

\* the aggregation job is not running
AggIdle ==
    /\ agg_pc = "off"
    /\ agg_runs = 0
    /\ ids_to_queue = <<>>
    /\ evidenceQueued = {}
    /\ jobs = <<>>

NoMessage == [tag |-> 0, body |-> "none"]

\* no evidence worker
WorkerIdle ==
    /\ ew_pc = "off"
    /\ ew_ready = <<>>
    /\ ew_msg = NoMessage
    /\ ew_success = FALSE
    /\ ew_delivered = 0
    /\ ew_acks = [t \in 1..MaxJobs |-> 0]
    /\ ew_log = <<>>

MoreIdle == ReconIdle /\ RecIdle /\ AggIdle /\ WorkerIdle

ExtIdle == BuildIdle /\ PureIdle /\ DetIdle /\ HealthIdle /\ MoreIdle

\* no metadata sink has been constructed
SinkOff ==
    /\ clock = 0
    /\ data_queue = <<>>
    /\ stop_event = FALSE
    /\ buffer = <<>>
    /\ last_flush_time = 0
    /\ wpc = "off"
    /\ w_wait = 0
    /\ spc = "off"
    /\ join_left = 0
    /\ submitted = 0
    /\ last_call = NoCall
    /\ inserts = <<>>
    /\ at_close = NoClose
    /\ gets = <<>>

CamInit == CamFields /\ EngIdle /\ CloseIdle /\ SinkOff /\ ExtIdle

\* nothing is at work but what a specification starts
Quiet ==
    /\ CamFields
    /\ rotation = 0
    /\ EngIdle
    /\ CloseIdle
    /\ SinkOff

CamNext ==
    \/ CallConnect
    \/ \E t \in {"main", "reader"} : ConnectOpen(t)
    \/ \E t \in {"main", "reader"} : ConnectWarmup(t)
    \/ \E t \in {"main", "reader"} : ConnectPublish(t)
    \/ StartReaderLoop
    \/ ReaderLoop
    \/ ReconnectRelease
    \/ ReconnectSleep
    \/ ReaderRead
    \/ ReaderPublish
    \/ ReadCheck
    \/ ReadLocked
    \/ ClientMutate
    \/ CallClose
    \/ CloseMark
    \/ CloseStop
    \/ CloseJoin
    \/ CloseRelease

SpecCam == CamInit /\ [][CamNext]_vars

\* the frame source closed more than once: by the application and by the
\* signal handler, the reader thread running or not
CloseNext ==
    \/ CallConnect
    \/ \E t \in {"main", "reader"} : ConnectOpen(t)
    \/ \E t \in {"main", "reader"} : ConnectWarmup(t)
    \/ \E t \in {"main", "reader"} : ConnectPublish(t)
    \/ StartReaderLoop
    \/ ReaderLoop
    \/ ReconnectRelease
    \/ ReconnectSleep
    \/ ReaderRead
    \/ ReaderPublish
    \/ CallClose
    \/ CallCloseAgain
    \/ SignalClose
    \/ CloseMark
    \/ CloseStop
    \/ CloseJoin
    \/ CloseRelease

SpecClose == CamInit /\ [][CloseNext]_vars

\* =================================================================
\* The frame source with its health monitor: the application connects,
\* starts the reader and the monitor, and closes
\* =================================================================
\* the reader with few failed reads in a row
ReaderReadFew == ReaderRead /\ read_errors' <= MaxHealthErrors

HealthInit == CamFields /\ rotation = 0 /\ EngIdle /\ CloseIdle /\ SinkOff /\ ExtIdle

HealthNext ==
    \/ CallConnect
    \/ \E t \in {"main", "reader"} : ConnectOpen(t)
    \/ \E t \in {"main", "reader"} : ConnectWarmup(t)
    \/ \E t \in {"main", "reader"} : ConnectPublish(t)
    \/ StartReaderLoop
    \/ ReaderLoop
    \/ ReconnectRelease
    \/ ReconnectSleep
    \/ ReaderReadFew
    \/ ReaderPublish
    \/ StartHealthMonitor
    \/ HealthLoop
    \/ HealthMeasure
    \/ HealthSample
    \/ HealthReport
    \/ CallClose
    \/ CloseMark
    \/ CloseStop
    \/ CloseJoin
    \/ CloseRelease

SpecHealth == HealthInit /\ [][HealthNext]_vars

\* =================================================================
\* The reader thread against a stream that drops, in time. Time is counted
\* in units of the reader loop's 5 ms pause; reads and releases take none.
\* =================================================================
\* "time.sleep(0.005)" at the end of an iteration that has read
LoopSleep == 1

\* reconnect_interval: int = 5 (seconds)
reconnect_interval == 1000

\* the stream drops: the handle the source holds delivers nothing from now
\* on; a handle opened later is a new connection
Drop ==
    /\ pc["reader"] \notin {"idle", "done"}
    /\ capture = "open"
    /\ drops < MaxDrops
    /\ now < MaxCaptures
    /\ capture' = "failed"
    /\ drops' = drops + 1
    /\ drop_ts' = now
    /\ UNCHANGED <<rotation, is_open, last_frame, last_frame_time, reader_stop_event,
                   health_stop_event, heap, pc, loc, ret_main, read_errors, now, c_res,
                   c_prev, pub_ts, consecFails, close_returned, engVars, closeVars,
                   sinkVars, gets, buildVars, pureVars, detVars, healthVars, outage,
                   tick_pos, tick_n, recVars, svcVars>>

\* the reader thread's position, told apart from its earlier visits there
ReaderPos == <<pc["reader"], read_errors, now>>

\* the time the reader thread has spent at its position
Elapsed == IF tick_pos = ReaderPos THEN tick_n ELSE 0

\* variant: the reader loop pauses in every iteration
SleepDue_Always == TRUE

\* the pause at the end of an iteration is skipped by both "continue"
\* statements: after _reconnect (the source was closed, or is open with the
\* counter still past the limit) and after marking the source closed; the
\* thread starts like an iteration that has paused
SleepDue == is_open /\ read_errors <= ReadErrorLimit

\* how long the reader thread stays at a position: the reconnect wait, the
\* loop's pause, connect() up to ConnectTime
WaitAt(p) ==
    CASE p = "rc_sleep" -> reconnect_interval
      [] p = "loop" -> IF SleepDue THEN LoopSleep ELSE 0
      [] p = "cn_open" -> ConnectTime
      [] OTHER -> 0

\* one unit of time passes while the reader thread waits
Elapse ==
    /\ Elapsed < WaitAt(pc["reader"])
    /\ tick_pos' = ReaderPos
    /\ tick_n' = Elapsed + 1
    /\ outage' = IF capture = "open" THEN outage ELSE outage + 1
    /\ UNCHANGED <<camVars, engVars, closeVars, sinkVars, gets, buildVars, pureVars,
                   detVars, healthVars, drops, drop_ts, recVars, svcVars>>

\* the loop test, once the pause is over
TimedReaderLoop == ReaderLoop /\ Elapsed = WaitAt("loop")

\* connect() is entered when the reconnect wait is over
TimedReconnectSleep == ReconnectSleep /\ Elapsed = reconnect_interval

\* the stream is readable again: connect() takes some time and opens it
TimedConnectOpen == ConnectOpen("reader") /\ Elapsed > 0 /\ capture' = "open"

\* a live handle delivers: the warm-up read and the loop's read succeed
StreamWarmup == ConnectWarmup("reader") /\ (capture = "open" => is_open')

StreamRead == ReaderRead /\ (capture = "open" => pc'["reader"] = "got")

ReconnectInit == CamFields /\ rotation = 0 /\ EngIdle /\ CloseIdle /\ SinkOff /\ ExtIdle

ReconnectNext ==
    \/ CallConnect
    \/ ConnectOpen("main")
    \/ ConnectWarmup("main")
    \/ ConnectPublish("main")
    \/ StartReaderLoop
    \/ TimedReaderLoop
    \/ ReconnectRelease
    \/ TimedReconnectSleep
    \/ TimedConnectOpen
    \/ StreamWarmup
    \/ ConnectPublish("reader")
    \/ StreamRead
    \/ ReaderPublish
    \/ Drop
    \/ Elapse

\* the threads run and time passes
SpecReconnect == ReconnectInit /\ [][ReconnectNext]_vars /\ WF_vars(ReconnectNext)

\* =================================================================
\* The metadata sink: its owner (process, close), the worker thread, the clock
\* =================================================================
\* __init__: empty queue, stop event clear, worker thread started; the worker
\* begins with an empty buffer and last_flush_time = time.time()
SinkStarted ==
    /\ clock = 0
    /\ data_queue = <<>>
    /\ stop_event = FALSE
    /\ buffer = <<>>
    /\ last_flush_time = 0
    /\ wpc = "loop"
    /\ w_wait = 0
    /\ spc = "run"
    /\ join_left = 0
    /\ submitted = 0
    /\ last_call = NoCall
    /\ inserts = <<>>
    /\ at_close = NoClose
    /\ gets = <<>>

SinkInit == CamFields /\ rotation = 0 /\ EngIdle /\ CloseIdle /\ SinkStarted /\ ExtIdle

SinkNext ==
    \/ Process
    \/ WorkerLoop
    \/ WorkerGet
    \/ WorkerEmpty
    \/ WorkerCheck
    \/ WorkerFlush
    \/ WorkerFinal
    \/ WorkerFinalFlush
    \/ SinkClose
    \/ SinkJoin
    \/ Tick

SpecSink == SinkInit /\ [][SinkNext]_vars

\* =================================================================
\* The Detector in its loop on a connected source, its sink constructed
\* =================================================================
DetInit ==
    /\ rotation = 0
    /\ is_open = TRUE
    /\ capture = "open"
    /\ last_frame = 1
    /\ last_frame_time = 1
    /\ reader_stop_event = FALSE
    /\ health_stop_event = FALSE
    /\ heap = [r \in Refs |-> IF r = 1 THEN NewFrame(1) ELSE Free]
    /\ pc = [main |-> "ready", reader |-> "idle", client |-> "idle", health |-> "idle"]
    /\ loc = [main |-> 0, reader |-> 0, client |-> 0, health |-> 0]
    /\ ret_main = "ready"
    /\ read_errors = 0
    /\ now = 1
    /\ c_res = NoResult
    /\ c_prev = 0
    /\ pub_ts = 1
    /\ consecFails = 0
    /\ close_returned = FALSE
    /\ EngIdle
    /\ CloseIdle
    /\ SinkStarted
    /\ BuildIdle
    /\ PureIdle
    /\ HealthIdle
    /\ MoreIdle
    /\ d_pc = "loop"
    /\ d_frame_number = 0
    /\ helpers = {}
    /\ zm_in = {}
    /\ zm_done = {}

DetNext ==
    \/ DetectorRead
    \/ DetectorPredict
    \/ DetectorZoneEnter
    \/ DetectorZoneLeave
    \/ \E n \in 1..(MaxPredicts + 1) : HelperZoneEnter(n)
    \/ \E n \in 1..(MaxPredicts + 1) : HelperZoneLeave(n)
    \/ \E n \in 1..(MaxPredicts + 1) : HelperSubmit(n)

SpecDet == DetInit /\ [][DetNext]_vars

\* =================================================================
\* connect() on a new frame source, whatever the source answers
\* =================================================================
ConnectInit ==
    /\ Quiet
    /\ BuildIdle
    /\ DetIdle
    /\ HealthIdle
    /\ MoreIdle
    /\ fn_arg \in ConnectArgs
    /\ fn_res = <<>>

ConnectNext == ConnectOnce

SpecConnect == ConnectInit /\ [][ConnectNext]_vars

\* =================================================================
\* validate() on a frame, whatever the frame
\* =================================================================
ValidateInit ==
    /\ Quiet
    /\ BuildIdle
    /\ DetIdle
    /\ HealthIdle
    /\ MoreIdle
    /\ fn_arg \in Frames
    /\ fn_res = <<>>

ValidateNext == ValidateOnce

SpecValidate == ValidateInit /\ [][ValidateNext]_vars

\* =================================================================
\* _format_metadata applied to a track entry and to its own result
\* =================================================================
NormInit ==
    /\ Quiet
    /\ BuildIdle
    /\ DetIdle
    /\ HealthIdle
    /\ MoreIdle
    /\ fn_arg \in RawTracks
    /\ fn_res = <<>>

NormNext == FormatMetadata

SpecNorm == NormInit /\ [][NormNext]_vars

\* =================================================================
\* One record of the metadata sink and the objects it shares with the
\* payload: from process() to the bulk insert, a later stage writing into
\* the payload meanwhile
\* =================================================================
Boxes == 0..MaxBox

Locations == {"inside", "outside"}

\* a stage has produced the payload's track map
RecordInit ==
    /\ Quiet
    /\ BuildIdle
    /\ PureIdle
    /\ DetIdle
    /\ HealthIdle
    /\ ReconIdle
    /\ AggIdle
    /\ WorkerIdle
    /\ rec_pc = "none"
    /\ track_ids_info \in Boxes
    /\ instance_dict \in Locations
    /\ formatted_tracks = 0
    /\ at_submit = <<>>
    /\ inserted_doc = <<>>

\* process(payload): the item put on the queue holds payload['meta']
\* ['track_ids_info'] itself, not a copy
SubmitRecord ==
    /\ rec_pc = "none"
    /\ rec_pc' = "queued"
    /\ at_submit' = <<track_ids_info, instance_dict>>
    /\ UNCHANGED <<camVars, engVars, closeVars, sinkVars, gets, buildVars, pureVars,
                   detVars, healthVars, reconVars, svcVars, track_ids_info, instance_dict,
                   formatted_tracks, inserted_doc>>

\* a later stage writes into the track map of the payload it was handed
StageMutatesTracks ==
    /\ rec_pc # "none"
    /\ \E b \in Boxes \ {track_ids_info} : track_ids_info' = b
    /\ UNCHANGED <<camVars, engVars, closeVars, sinkVars, gets, buildVars, pureVars,
                   detVars, healthVars, reconVars, svcVars, rec_pc, instance_dict,
                   formatted_tracks, at_submit, inserted_doc>>

\* a later stage, or the Zone Manager, writes into the nested zone map
StageMutatesZones ==
    /\ rec_pc # "none"
    /\ \E l \in Locations \ {instance_dict} : instance_dict' = l
    /\ UNCHANGED <<camVars, engVars, closeVars, sinkVars, gets, buildVars, pureVars,
                   detVars, healthVars, reconVars, svcVars, rec_pc, track_ids_info,
                   formatted_tracks, at_submit, inserted_doc>>

\* the worker takes the item; _format_metadata builds the document: the
\* bbox as a new list of ints from the track map as it is now, and
\* "instance_dict": details.get("instance_dict", {}), the nested map itself
WorkerFormats ==
    /\ rec_pc = "queued"
    /\ rec_pc' = "buffered"
    /\ formatted_tracks' = track_ids_info
    /\ UNCHANGED <<camVars, engVars, closeVars, sinkVars, gets, buildVars, pureVars,
                   detVars, healthVars, reconVars, svcVars, track_ids_info, instance_dict,
                   at_submit, inserted_doc>>

\* _flush_to_db: the document is serialised and inserted, the nested map as
\* it reads now
WorkerInserts ==
    /\ rec_pc = "buffered"
    /\ rec_pc' = "inserted"
    /\ inserted_doc' = <<formatted_tracks, instance_dict>>
    /\ UNCHANGED <<camVars, engVars, closeVars, sinkVars, gets, buildVars, pureVars,
                   detVars, healthVars, reconVars, svcVars, track_ids_info, instance_dict,
                   formatted_tracks, at_submit>>

RecordNext ==
    \/ SubmitRecord
    \/ StageMutatesTracks
    \/ StageMutatesZones
    \/ WorkerFormats
    \/ WorkerInserts

SpecRecord == RecordInit /\ [][RecordNext]_vars

\* =================================================================
\* The aggregator (aggregator.py): the job that queues evidence jobs for
\* the nexus entries not marked yet, run again and again
\* =================================================================
Entries == 1..NumEntries

\* a set of ids as the cursor hands them out
RECURSIVE InOrder(_)
InOrder(S) ==
    IF S = {} THEN <<>>
    ELSE LET x == CHOOSE y \in S : \A z \in S : y <= z
         IN <<x>> \o InOrder(S \ {x})

\* the job is started; the nexus collection holds its entries, none marked
AggInit ==
    /\ Quiet
    /\ BuildIdle
    /\ PureIdle
    /\ DetIdle
    /\ HealthIdle
    /\ ReconIdle
    /\ RecIdle
    /\ WorkerIdle
    /\ agg_pc = "find"
    /\ agg_runs = 1
    /\ ids_to_queue = <<>>
    /\ evidenceQueued = {}
    /\ jobs = <<>>

\* run_aggregation: find the entries without the evidenceQueued field;
\* return if there is none
AggFind ==
    /\ agg_pc = "find"
    /\ ids_to_queue' = InOrder(Entries \ evidenceQueued)
    /\ agg_pc' = IF ids_to_queue' = <<>> THEN "done" ELSE "publish"
    /\ UNCHANGED <<camVars, engVars, closeVars, sinkVars, gets, buildVars, pureVars,
                   detVars, healthVars, reconVars, recVars, ewVars, agg_runs,
                   evidenceQueued, jobs>>

\* publish_job_to_queue(job_id): connect, declare, publish; an exception is
\* printed and swallowed, the function returns None either way
AggPublish ==
    /\ agg_pc = "publish"
    /\ \E sent \in BOOLEAN :
        jobs' = IF sent THEN Append(jobs, Head(ids_to_queue)) ELSE jobs
    /\ agg_pc' = "mark"
    /\ UNCHANGED <<camVars, engVars, closeVars, sinkVars, gets, buildVars, pureVars,
                   detVars, healthVars, reconVars, recVars, ewVars, agg_runs,
                   ids_to_queue, evidenceQueued>>

\* run_aggregation: update_one sets evidenceQueued on the entry, whatever
\* the publish did; an exception of the update ends the run (exit 1)
AggMark ==
    /\ agg_pc = "mark"
    /\ \E raises \in BOOLEAN :
        IF raises
        THEN /\ agg_pc' = "failed"
             /\ UNCHANGED <<ids_to_queue, evidenceQueued>>
        ELSE /\ evidenceQueued' = evidenceQueued \cup {Head(ids_to_queue)}
             /\ ids_to_queue' = Tail(ids_to_queue)
             /\ agg_pc' = IF ids_to_queue' = <<>> THEN "done" ELSE "publish"
    /\ UNCHANGED <<camVars, engVars, closeVars, sinkVars, gets, buildVars, pureVars,
                   detVars, healthVars, reconVars, recVars, ewVars, agg_runs, jobs>>

\* the job is run again
AggRunAgain ==
    /\ agg_pc \in {"done", "failed"}
    /\ agg_runs < MaxRuns
    /\ agg_runs' = agg_runs + 1
    /\ agg_pc' = "find"
    /\ ids_to_queue' = <<>>
    /\ UNCHANGED <<camVars, engVars, closeVars, sinkVars, gets, buildVars, pureVars,
                   detVars, healthVars, reconVars, recVars, ewVars, evidenceQueued, jobs>>

AggNext ==
    \/ AggFind
    \/ AggPublish
    \/ AggMark
    \/ AggRunAgain

SpecAgg == AggInit /\ [][AggNext]_vars

\* =================================================================
\* The evidence worker (evidence-worker.py): the broker delivers one
\* message at a time, the callback works on it and acknowledges
\* =================================================================
\* "channel.basic_qos(prefetch_count=1)"
prefetch_count == 1

\* a message body: a job for an entry, a job for an entry that does not
\* exist, JSON without nexus_id, something json.loads rejects
Bodies == {"job", "no_doc", "no_id", "not_json"}

RECURSIVE SeqsOf(_, _)
SeqsOf(S, n) ==
    IF n = 0 THEN {<<>>}
    ELSE LET shorter == SeqsOf(S, n - 1)
         IN shorter \cup {Append(q, x) : q \in {r \in shorter : Len(r) = n - 1}, x \in S}

\* deliveries the broker has not seen acknowledged
Unacked == {t \in 1..ew_delivered : ew_acks[t] = 0}

\* main(): connected, consuming; the queue holds whatever was published
EvidenceInit ==
    /\ Quiet
    /\ BuildIdle
    /\ PureIdle
    /\ DetIdle
    /\ HealthIdle
    /\ ReconIdle
    /\ RecIdle
    /\ AggIdle
    /\ ew_pc = "wait"
    /\ ew_ready \in SeqsOf(Bodies, MaxJobs)
    /\ ew_msg = NoMessage
    /\ ew_success = FALSE
    /\ ew_delivered = 0
    /\ ew_acks = [t \in 1..MaxJobs |-> 0]
    /\ ew_log = <<>>

\* the broker hands the next message to the consumer, no more than
\* prefetch_count unacknowledged at a time; pika calls on_message_callback
Deliver ==
    /\ ew_pc = "wait"
    /\ ew_ready # <<>>
    /\ Cardinality(Unacked) < prefetch_count
    /\ ew_delivered' = ew_delivered + 1
    /\ ew_msg' = [tag |-> ew_delivered + 1, body |-> Head(ew_ready)]
    /\ ew_ready' = Tail(ew_ready)
    /\ ew_pc' = "parse"
    /\ UNCHANGED <<camVars, engVars, closeVars, sinkVars, gets, buildVars, pureVars,
                   detVars, healthVars, reconVars, recVars, aggVars, ew_success, ew_acks,
                   ew_log>>

\* ch.basic_ack(delivery_tag=method.delivery_tag)
BasicAck(acks, tag) == [acks EXCEPT ![tag] = @ + 1]

\* on_message_callback: json.loads, data.get("nexus_id"); a message without
\* id is acknowledged and discarded; an exception goes to the except clause
CallbackParse ==
    /\ ew_pc = "parse"
    /\ CASE ew_msg.body = "not_json" ->
              /\ ew_pc' = "except"
              /\ UNCHANGED <<ew_acks, ew_log>>
         [] ew_msg.body = "no_id" ->
              /\ ew_acks' = BasicAck(ew_acks, ew_msg.tag)
              /\ ew_log' = Append(ew_log, "discarded")
              /\ ew_pc' = "wait"
         [] OTHER ->
              /\ ew_pc' = "work"
              /\ UNCHANGED <<ew_acks, ew_log>>
    /\ UNCHANGED <<camVars, engVars, closeVars, sinkVars, gets, buildVars, pureVars,
                   detVars, healthVars, reconVars, recVars, aggVars, ew_ready, ew_msg,
                   ew_success, ew_delivered>>

\* what create_video_evidence can come to: True; False, when the entry is
\* not found or the work raised and the except clause noted the failure;
\* an exception, when noting the failure raised as well
WorkOutcomes(body) ==
    IF body = "no_doc" THEN {"false", "raised"} ELSE {"true", "false", "raised"}

\* on_message_callback: success = create_video_evidence(nexus_id)
CreateVideoEvidence ==
    /\ ew_pc = "work"
    /\ \E out \in WorkOutcomes(ew_msg.body) :
        IF out = "raised"
        THEN /\ ew_pc' = "except"
             /\ UNCHANGED ew_success
        ELSE /\ ew_pc' = "ack"
             /\ ew_success' = (out = "true")
    /\ UNCHANGED <<camVars, engVars, closeVars, sinkVars, gets, buildVars, pureVars,
                   detVars, healthVars, reconVars, recVars, aggVars, ew_ready, ew_msg,
                   ew_delivered, ew_acks, ew_log>>

\* variant: a failed job is left unacknowledged
AckAfterWork_OnlySuccess(success) == success

\* "if success: ... basic_ack ... else: ... basic_ack": both branches
\* acknowledge
AckAfterWork(success) == TRUE

\* on_message_callback: acknowledge after the work, the callback returns
CallbackAck ==
    /\ ew_pc = "ack"
    /\ ew_acks' = IF AckAfterWork(ew_success) THEN BasicAck(ew_acks, ew_msg.tag)
                  ELSE ew_acks
    /\ ew_log' = Append(ew_log, IF ew_success THEN "complete" ELSE "failed")
    /\ ew_pc' = "wait"
    /\ UNCHANGED <<camVars, engVars, closeVars, sinkVars, gets, buildVars, pureVars,
                   detVars, healthVars, reconVars, recVars, aggVars, ew_ready, ew_msg,
                   ew_success, ew_delivered>>

\* on_message_callback: "except Exception": acknowledge anyway, return
CallbackExcept ==
    /\ ew_pc = "except"
    /\ ew_acks' = BasicAck(ew_acks, ew_msg.tag)
    /\ ew_log' = Append(ew_log, "error")
    /\ ew_pc' = "wait"
    /\ UNCHANGED <<camVars, engVars, closeVars, sinkVars, gets, buildVars, pureVars,
                   detVars, healthVars, reconVars, recVars, aggVars, ew_ready, ew_msg,
                   ew_success, ew_delivered>>

EvidenceNext ==
    \/ Deliver
    \/ CallbackParse
    \/ CreateVideoEvidence
    \/ CallbackAck
    \/ CallbackExcept

SpecEvidence == EvidenceInit /\ [][EvidenceNext]_vars

\* =================================================================
\* The agent: main.py drives the camera and the pipeline; a stage may
\* have started the camera's reader thread
\* =================================================================
Init ==
    /\ rotation = 0
    /\ is_open = FALSE
    /\ capture = "none"
    /\ last_frame = 0
    /\ last_frame_time = 0
    /\ reader_stop_event = FALSE
    /\ health_stop_event = FALSE
    /\ heap = [r \in Refs |-> Free]
    /\ pc = [main |-> "load_configuration", reader |-> "idle", client |-> "idle",
            health |-> "idle"]
    /\ loc = [main |-> 0, reader |-> 0, client |-> 0, health |-> 0]
    /\ ret_main = "build_pipeline"
    /\ read_errors = 0
    /\ now = 0
    /\ c_res = NoResult
    /\ c_prev = 0
    /\ pub_ts = 0
    /\ consecFails = 0
    /\ close_returned = FALSE
    /\ close_ret = "closed"
    /\ shutdown_event = FALSE
    /\ handler = "main"
    /\ signals = 0
    /\ frame_count = 0
    /\ stage_i = 0
    /\ calls = <<>>
    /\ subs = {}
    /\ abort_at = 0
    /\ frame_result = "none"
    /\ CloseIdle
    /\ SinkOff
    /\ ExtIdle

\* main.py as it is: nothing in it starts the reader thread
Next ==
    \/ Signal
    \/ LoadConfiguration
    \/ ConnectOpen("main")
    \/ ConnectWarmup("main")
    \/ ConnectPublish("main")
    \/ BuildPipeline
    \/ RunLoop
    \/ Capture
    \/ Stage
    \/ Cleanup
    \/ CloseMark
    \/ CloseStop
    \/ CloseJoin
    \/ CloseRelease

Spec == Init /\ [][Next]_vars

\* the agent with the reader thread running: a stage, given the camera in its
\* configuration, called start_reader_loop() when it was built
AgentNext ==
    \/ Next
    \/ StartReaderLoop
    \/ ConnectOpen("reader")
    \/ ConnectWarmup("reader")
    \/ ConnectPublish("reader")
    \/ ReaderLoop
    \/ ReconnectRelease
    \/ ReconnectSleep
    \/ ReaderRead
    \/ ReaderPublish

SpecAgent == Init /\ [][AgentNext]_vars


\* =================================================================
\* Properties
\* =================================================================
FrameOver == frame_result \in {"completed", "aborted", "raised"}

\* C1 as stated: for the frame in flight the stages are invoked in descriptor
\* order, each at most once, none skipped; and a frame that ends without any
\* stage having returned None has had every stage invoked exactly once.
C1_EveryStageUnlessAbort ==
    /\ calls = Prefix(Len(calls))
    /\ (FrameOver /\ abort_at = 0) => Len(calls) = NumStages

\* C1 amended: the stages are invoked in descriptor order, each at most once,
\* none skipped, up to and including the first stage that returns None or
\* raises; a frame on which no stage returns None and no stage raises has
\* every stage invoked exactly once.
C1_PipelineOrder ==
    /\ calls = Prefix(Len(calls))
    /\ frame_result = "running" => Len(calls) = stage_i - 1
    /\ frame_result = "aborted" => Len(calls) = abort_at
    /\ frame_result = "completed" => (Len(calls) = NumStages /\ abort_at = 0)

C1_Witness ==
    /\ frame_result = "completed"
    /\ calls = Prefix(NumStages)
    /\ frame_count = MaxFrames

\* C2: once a stage has returned None for a frame, no later stage is invoked
\* for it and no submission comes from a later stage; the step on which the
\* stage returns None counts the frame and goes back to the head of the
\* while loop, that is to the next capture.
C2_AbortIsolation ==
    /\ [](abort_at # 0 =>
            /\ frame_result = "aborted"
            /\ \A k \in 1..Len(calls) : calls[k] <= abort_at
            /\ \A st \in subs : st <= abort_at)
    /\ [][(abort_at = 0 /\ abort_at' # 0) =>
            (pc'["main"] = "run" /\ frame_count' = frame_count + 1)]_vars

C2_Witness ==
    /\ frame_result = "aborted"
    /\ abort_at = 1
    /\ abort_at < NumStages
    /\ subs = {1}
    /\ pc["main"] = "capture"

\* C3: a stage that raises loses its frame only; the run loop stays alive (it
\* is left only for a shutdown or a closed source).
C3_StageErrorKeepsLoopAlive ==
    (frame_result = "raised" /\ ~shutdown_event /\ is_open)
        => pc["main"] \notin {"cleanup", "crashed"}

\* C4: a read() that has returned gave (true, copy of the frame last
\* published) exactly when it saw the source open and the buffer had been
\* filled, and (false, none) otherwise; the frame is the latest published one
\* and an object of its own.
C4_ReadReturnsLatest ==
    pc["client"] = "idle" =>
        /\ c_res.ok <=> (c_res.sawOpen /\ c_res.latest > 0)
        /\ c_res.ok => (c_res.ts = c_res.latest /\ c_res.fresh)
        /\ ~c_res.ok => (c_res.ts = 0 /\ loc["client"] = 0)

C4_Witness ==
    /\ pc["client"] = "idle"
    /\ c_res.ok
    /\ c_prev = 1
    /\ c_res.ts = 2
    /\ pub_ts = 2

\* C5: the buffered frame never carries a consumer's writes, and no read()
\* returns a frame that does, whatever the rotation.
C5_CopyIsolation ==
    /\ last_frame # 0 => ~heap[last_frame].dirty
    /\ c_res.clean

C5_Witness ==
    /\ rotation = 0
    /\ loc["client"] # 0
    /\ heap[loc["client"]].dirty
    /\ last_frame # 0
    /\ heap[last_frame].ts = heap[loc["client"]].ts
    /\ pc["reader"] # "idle"

\* C6: a successful read() returns a frame captured no earlier than the one
\* the successful read() before it returned.
C6_FreshnessMonotonic == c_res.ok => c_prev <= c_res.ts

\* the second read returned the warm-up frame of a reconnect
C6_Witness ==
    /\ c_res.ok
    /\ c_prev = 1
    /\ c_res.ts = 2
    /\ read_errors > ReadErrorLimit

\* C7: the reader thread marks the source closed only when it has seen more
\* than 10 failed reads in a row.
C7_ClosedOnlyPastLimit ==
    [][(pc["reader"] = "read" /\ pc'["reader"] = "loop" /\ is_open /\ ~is_open')
          => consecFails' > ReadErrorLimit]_vars

\* C8: the reader thread ends only with the stop event set; a failed
\* reconnect sends it back to the head of its loop, from where, the source
\* still closed and no stop requested, it releases, waits and connects again;
\* connect is entered only from the wait.
C8_ReaderEndsOnlyOnStop ==
    [][/\ (pc["reader"] # "done" /\ pc'["reader"] = "done") => reader_stop_event
       /\ (pc["reader"] = "cn_warm" /\ pc'["reader"] # "cn_warm" /\ ~is_open')
             => pc'["reader"] = "loop"
       /\ (pc["reader"] = "loop" /\ pc'["reader"] # "loop" /\ ~reader_stop_event
             /\ ~is_open) => pc'["reader"] = "rc_release"
       /\ (pc["reader"] # "cn_open" /\ pc'["reader"] = "cn_open")
             => pc["reader"] = "rc_sleep"]_vars

\* a reconnect has failed and the reader is at the next attempt
C8_Witness ==
    /\ pc["reader"] = "rc_release"
    /\ capture = "failed"
    /\ ~reader_stop_event
    /\ consecFails > ReadErrorLimit

\* C9: a stream dropout (the reader past its failure limit) does not end the
\* run loop: without a shutdown signal and without a stage error the main
\* thread is not in cleanup.
C9_DropoutKeepsLoopRunning ==
    (read_errors > ReadErrorLimit /\ ~shutdown_event /\ signals = 0
        /\ frame_result # "raised") => pc["main"] \notin {"cleanup", "crashed"}

\* C10: once close() has returned the source is closed and stays closed: the
\* open flag is false and no handle is open.
C10_ClosedStaysClosed ==
    close_returned => (~is_open /\ capture # "open")

\* the state close() leaves the frame source in
ClosedState ==
    /\ ~is_open
    /\ reader_stop_event
    /\ health_stop_event
    /\ capture \in {"none", "released"}

\* C11: close() is idempotent: a step of close() taken on a source that is in
\* the state close() leaves (open flag false, both stop events set, handle
\* released or absent) changes neither of these nor the reader thread and
\* does not fail, whether the call comes from the application or from the
\* signal handler, inside a close() in progress too; with no reader thread
\* running the source is in that state from the return of the first call on.
C11_CloseIdempotent ==
    /\ []((closes >= 1 /\ pc["reader"] = "idle") => ClosedState)
    /\ [][(InClose /\ pc'["main"] # pc["main"] /\ ClosedState)
            => /\ ClosedState'
               /\ capture' = capture
               /\ pc'["reader"] = pc["reader"]
               /\ pc'["main"] \notin {"crashed", "exit1"}]_vars

\* a second call from the application and one from the signal handler have
\* returned, the reader thread having ended
C11_Witness ==
    /\ closes > MaxCloses
    /\ signals = 1
    /\ pc["main"] = "closed"
    /\ pc["reader"] = "done"
    /\ ClosedState

\* C12: a thread exits within its budget once its stop event is set: when
\* close()'s join of the reader thread (budget 2 s, started after the stop
\* event was set) has returned, the reader thread has ended.
C12_ExitWithinBudget ==
    (reader_stop_event /\ pc["main"] = "cl_release") => pc["reader"] \in {"idle", "done"}

\* C13: a SIGINT / SIGTERM delivered after startup has constructed the frame
\* source sets the process-wide shutdown event.
C13_SignalSetsShutdown ==
    [][(signals' = signals + 1 /\ handler = "camera") => shutdown_event']_vars

C15_CleanupClosesStages ==
    pc["main"] \in {"crashed", "cleaned"} => StagesClosed = Prefix(NumStages)

\* C16: process() queues exactly one record for a payload whose track map
\* has tracks and nothing for one whose map is empty or missing; either way
\* it returns the payload it was given, and the call neither waits for the
\* worker or the store nor takes time: it can be made whatever the worker is
\* doing and changes nothing but the queue.
C16_SubmitEnqueuesOnce ==
    /\ [](last_call.made =>
            /\ last_call.returned = last_call.payload
            /\ last_call.queued = IF last_call.payload.tracks = "some"
                                  THEN <<last_call.payload.frame_number>> ELSE <<>>)
    /\ [][submitted' # submitted =>
            /\ data_queue' = data_queue \o last_call'.queued
            /\ UNCHANGED <<clock, wpc, w_wait, buffer, inserts, stop_event>>]_vars
    /\ []((spc = "run" /\ submitted < MaxRecords) => ENABLED Process)

\* a record was queued while a bulk insert was under way
C16_Witness ==
    /\ last_call.made
    /\ last_call.busy
    /\ last_call.payload.tracks = "some"
    /\ data_queue = <<last_call.payload.frame_number>>

C18_BatchBounded ==
    /\ [](Len(buffer) <= batch_size)
    /\ [][(wpc = "flush" /\ wpc' # "flush") => buffer' = <<>>]_vars
    /\ []((buffer # <<>> /\ wpc \in {"get", "flush"})
            => clock - last_flush_time <= flush_interval + 1)

\* What holds of it: the buffer never holds more than batch_size records and
\* is empty right after a flush; while the worker waits on its queue with
\* records in the buffer, no more than flush_interval + 1 seconds have passed
\* since the last flush. A bulk insert under way adds the time it takes.
BufferBoundedWhileWaiting ==
    /\ [](Len(buffer) <= batch_size)
    /\ [][(wpc = "flush" /\ wpc' # "flush") => buffer' = <<>>]_vars
    /\ []((buffer # <<>> /\ wpc = "get")
            => clock - last_flush_time <= flush_interval + 1)

\* after a flush, a record has waited in the buffer for the whole interval
WaitedWholeInterval ==
    /\ Len(inserts) >= 1
    /\ wpc = "get"
    /\ buffer # <<>>
    /\ w_wait = 0
    /\ clock - last_flush_time = flush_interval

\* C19: a failed bulk insert drops its batch and leaves the worker running:
\* the flush clears the buffer and returns to the head of the loop whatever
\* the outcome, and no record is part of two bulk inserts.
C19_FailedBatchDropped ==
    /\ [](\A i, j \in 1..Len(inserts) :
            \A a \in 1..Len(inserts[i].batch), b \in 1..Len(inserts[j].batch) :
                inserts[i].batch[a] = inserts[j].batch[b] => (i = j /\ a = b))
    /\ [][(wpc = "flush" /\ wpc' # "flush") => (wpc' = "loop" /\ buffer' = <<>>)]_vars

\* a bulk insert failed, a later record was inserted
C19_Witness ==
    /\ Len(inserts) = 2
    /\ ~inserts[1].ok
    /\ inserts[2].ok
    /\ ~inserts[2].final

RECURSIVE Flatten(_)
Flatten(ins) == IF ins = <<>> THEN <<>> ELSE Head(ins).batch \o Flatten(Tail(ins))

\* the items, in order, that the worker took and could format
KeptItems(g) ==
    LET kept == SelectSeq(g, LAMBDA x : x.ok)
    IN [k \in 1..Len(kept) |-> kept[k].item]

FinalFlushed == inserts # <<>> /\ inserts[Len(inserts)].final

\* C21: a record whose formatting fails is dropped: the step that takes it
\* leaves the buffer and the bulk inserts as they are and goes on to the
\* flush check of the same loop turn; and what has been inserted and what is
\* buffered are, together and in order, exactly the records taken whose
\* formatting succeeded - the records around a failed one are handled as if
\* it had never been submitted.
C21_FailedRecordDropped ==
    /\ [](Flatten(inserts) \o (IF FinalFlushed THEN <<>> ELSE buffer) = KeptItems(gets))
    /\ [][(Len(gets') = Len(gets) + 1 /\ ~gets'[Len(gets')].ok) =>
            /\ buffer' = buffer
            /\ inserts' = inserts
            /\ wpc = "get"
            /\ wpc' = "check"]_vars

\* the second of three records failed; the first and the third were inserted
C21_Witness ==
    /\ Len(gets) = 3
    /\ gets[1].ok
    /\ ~gets[2].ok
    /\ gets[3].ok
    /\ Flatten(inserts) = <<gets[1].item, gets[3].item>>
    /\ buffer = <<>>

\* C22: a track entry that is the result of _format_metadata comes out of
\* _format_metadata equal to itself, field by field.
C22_NormalizeIdempotent == Len(fn_res) = 2 => fn_res[2] = fn_res[1]

\* what holds of it: every field but the class id is kept
NormalizeKeepsOtherFields ==
    Len(fn_res) = 2 =>
        /\ fn_res[2].track_id = fn_res[1].track_id
        /\ fn_res[2].bbox = fn_res[1].bbox
        /\ fn_res[2].confidence = fn_res[1].confidence
        /\ fn_res[2].label_name = fn_res[1].label_name
        /\ fn_res[2].instance_dict = fn_res[1].instance_dict

\* C23: once a stage descriptor could not be resolved or instantiated the
\* process has ended with status 1 and stays so: no stage's process() has
\* been or is invoked, no frame has entered the pipeline; and the run loop is
\* entered only with every stage of the descriptor built.
C23_BuildFailureExits ==
    /\ [](failed_stage # 0 =>
            /\ pc["main"] = "exit1"
            /\ ExitStatus = 1
            /\ calls = <<>>
            /\ frame_result = "none"
            /\ frame_count = 0)
    /\ [](pc["main"] \in {"run", "capture", "stage", "cleanup", "crashed"} =>
            (failed_stage = 0 /\ built = NumStages))

\* the second stage of the descriptor could not be built
C23_Witness ==
    /\ failed_stage = 2
    /\ built = 1
    /\ pc["main"] = "exit1"
    /\ is_open

\* C24: when startup has ended on a stage that could not be built, nothing
\* is left open: the stream handle is released, every stage built before
\* the failing one has been closed, and the reader thread was never started.
C24_NothingLeftOpen ==
    (failed_stage # 0 /\ pc["main"] = "exit1") =>
        /\ capture \in {"none", "released"}
        /\ Len(StagesClosed) >= built
        /\ pc["reader"] = "idle"

\* C25: the process ends with a non-zero status exactly when startup failed
\* (pipeline JSON, connect, stage construction); a run that started ends
\* with status 0, by a shutdown signal too.
C25_ExitStatus ==
    pc["main"] \in {"exit1", "crashed", "cleaned"} =>
        (ExitStatus # 0 <=> pc["main"] = "exit1")

\* C26: when a stage is invoked on a frame, every submission of the frames
\* before it has been made - no helper thread of an earlier frame is still
\* on its way to the sink - and the records in the sink's queue are in
\* frame order.
C26_FrameOrder ==
    /\ d_pc = "predict" => \A m \in helpers : m >= d_frame_number
    /\ \A i, j \in 1..Len(data_queue) : i < j => data_queue[i] < data_queue[j]

\* the order in which a stream is tried
StreamOrder(codec) == <<GstVariant(codec), GstVariant(AltCodec(codec)), "ffmpeg">>

\* C27: connect() on a stream tries preferred-codec GStreamer, alternate-codec
\* GStreamer, FFmpeg in this order, the next one only when the one before
\* did not open; it returns false only if every variant has been tried and
\* has failed; when it returns true the source is open, the buffer holds the
\* warm-up frame, and FPS and frame size are set.
C27_ConnectFallback ==
    fn_res # <<>> =>
        LET r == fn_res[1]
            n == Len(r.tried)
        IN /\ ~fn_arg.is_video_file =>
                /\ r.tried = SubSeq(StreamOrder(fn_arg.codec), 1, n)
                /\ \A k \in 1..(n - 1) : ~fn_arg.opens[r.tried[k]]
                /\ ~r.ret => n = 3
           /\ r.ret => /\ r.is_open
                       /\ r.buffered
                       /\ r.fps > 0
                       /\ r.size.width > 0
                       /\ r.size.height > 0

\* what holds of it: the order, the fall-through on a handle that did not
\* open, the fields after a true return; and a false return means that the
\* last variant tried did not open or gave no warm-up frame
ConnectFallbackOnOpenOnly ==
    fn_res # <<>> =>
        LET r == fn_res[1]
            n == Len(r.tried)
        IN /\ ~fn_arg.is_video_file =>
                /\ r.tried = SubSeq(StreamOrder(fn_arg.codec), 1, n)
                /\ \A k \in 1..(n - 1) : ~fn_arg.opens[r.tried[k]]
                /\ n < 3 => fn_arg.opens[r.tried[n]]
           /\ ~r.ret <=> (~fn_arg.opens[r.tried[n]] \/ ~fn_arg.warm_ok)
           /\ r.ret => /\ r.is_open
                       /\ r.buffered
                       /\ r.fps > 0
                       /\ r.size.width > 0
                       /\ r.size.height > 0

\* the reason codes of a result
Codes(r) == {r.reasons[k].code : k \in 1..Len(r.reasons)}

\* C28: validate() returns healthy exactly with an empty reason list; on an
\* image each of the four tests contributes its reason exactly when it
\* fires, whatever the others do, and once; None and an array of size 0
\* give (false, [Empty Frame]) with no test run.
C28_HealthyIffNoReason ==
    fn_res # <<>> =>
        LET r == fn_res[1]
        IN /\ r.healthy <=> r.reasons = <<>>
           /\ fn_arg.kind = "image" =>
                /\ "Low Entropy/Glitch" \in Codes(r) <=> fn_arg.entropy < entropy_thresh
                /\ "White Screen" \in Codes(r) <=> fn_arg.white > white_thresh
                /\ "Black Screen" \in Codes(r) <=> fn_arg.mean < black_thresh
                /\ "Blurry" \in Codes(r) <=> fn_arg.lap < blur_thresh
                /\ "Empty Frame" \notin Codes(r)
                /\ Len(r.reasons) = Cardinality(Codes(r))
           /\ fn_arg.kind # "image" =>
                /\ ~r.healthy
                /\ r.reasons = <<Reason("Empty Frame", 0)>>
                /\ r.ran = {}

\* all four tests fired on one frame
C28_Witness ==
    /\ fn_res # <<>>
    /\ fn_arg.kind = "image"
    /\ ~fn_res[1].healthy
    /\ Len(fn_res[1].reasons) = 4

\* the health thread is between two ticks
BetweenTicks == pc["health"] \in {"loop", "sleep", "done"}

\* C29: after every health tick the report has "connected false" only with
\* the reason list [Disconnected] and "corrupted" only with "connected"; a
\* tick runs the image checks only when the source is connected and it has
\* a sample; and the sample is a new object with the content of the
\* buffered frame, not the buffered frame itself.
C29_HealthReportConsistent ==
    /\ []((h_ticked /\ BetweenTicks) =>
            /\ ~is_connected => health_issues = Disconnected
            /\ is_corrupted => is_connected)
    /\ [][(pc["health"] = "report" /\ pc'["health"] # "report" /\ h_checked') =>
            (is_connected /\ loc["health"] # 0)]_vars
    /\ [][(pc["health"] = "sample" /\ pc'["health"] # "sample") =>
            /\ loc'["health"] # 0 <=> last_frame # 0
            /\ loc'["health"] # 0 =>
                  /\ loc'["health"] # last_frame
                  /\ heap[loc'["health"]] = Free
                  /\ heap'[loc'["health"]] = heap[last_frame]]_vars

\* a tick has found the source connected and the image corrupted
C29_Witness ==
    /\ h_ticked
    /\ h_checked
    /\ pc["health"] = "loop"
    /\ is_connected
    /\ is_corrupted
    /\ Len(health_issues) = 2

\* C30: a step of the health thread leaves the buffer (the frame, its
\* content and the last-frame time), the open flag, the stream handle and
\* the reader's failure count as they are, and the stop events and the
\* rotation too: it writes the health report only.
C30_HealthTickReadOnly ==
    [][pc'["health"] # pc["health"] /\ pc["health"] # "idle" =>
        /\ UNCHANGED <<last_frame, last_frame_time, is_open, capture, read_errors,
                       reader_stop_event, health_stop_event, rotation>>
        /\ last_frame # 0 => heap'[last_frame] = heap[last_frame]
        /\ pc'["reader"] = pc["reader"]
        /\ pc'["main"] = pc["main"]]_vars

\* a tick has run the image checks while the reader had a failed read counted
C30_Witness ==
    /\ h_ticked
    /\ h_checked
    /\ pc["health"] = "loop"
    /\ last_frame # 0
    /\ is_open
    /\ capture = "open"
    /\ read_errors > 0

\* the time the reader loop takes to count more than 10 failed reads in a
\* row: the pause it may be in when the stream drops and the pause after
\* each of the first 10 failures
DetectTime == (ReadErrorLimit + 1) * LoopSleep

\* after a drop the reader publishes a frame captured after it
RecoversAfterDrop == (drops > 0 /\ capture # "open") ~> (pub_ts > drop_ts)

C32_CounterResetByEveryRead ==
    [][/\ (pc["reader"] \in {"got", "cn_pub"} /\ pc'["reader"] = "loop")
            => read_errors' = 0
       /\ (pc["reader"] = "read" /\ pc'["reader"] = "loop" /\ is_open /\ ~is_open')
            => read_errors' = ReadErrorLimit + 1]_vars

\* C33: the open flag is true exactly when the handle is live and a frame
\* has been published.
C33_OpenIffLiveAndPublished ==
    is_open <=> (capture = "open" /\ last_frame # 0)

\* C34: the run loop takes its frames from read() on the buffer and never
\* from the stream handle: a frame enters the stages only when a read() has
\* handed one out, and the run loop is never at the handle.
C34_FramesOnlyThroughRead ==
    /\ frame_result = "running" => c_res.ok
    /\ pc["main"] # "capture"

\* C35: the Zone Manager's update_track_ids_status is used by at most one
\* thread at a time.
C35_ZoneManagerConfined == Cardinality(zm_in) <= 1

\* C36: the record that is bulk-inserted holds the track map, nested zone
\* maps included, as it was when process() was called, whatever is written
\* into the payload afterwards.
C36_RecordIsSnapshot == rec_pc = "inserted" => inserted_doc = at_submit

\* the record is part of some bulk-insert attempt
InSomeInsert(x) ==
    \E i \in 1..Len(inserts) : \E j \in 1..Len(inserts[i].batch) : inserts[i].batch[j] = x

\* the records the worker took whose formatting failed
FailedItems == {gets[k].item : k \in {n \in 1..Len(gets) : ~gets[n].ok}}

\* the records process() accepted: those the worker took and those still queued
AcceptedItems ==
    {gets[k].item : k \in 1..Len(gets)} \cup {data_queue[k] : k \in 1..Len(data_queue)}

\* C37 as stated: when the worker has ended after close(), every record that
\* was accepted is part of some bulk-insert attempt unless its formatting
\* failed, the records that were still queued at the stop included.
C37_AcceptedRecordsFlushed ==
    (wpc = "done" /\ at_close.called) =>
        \A x \in AcceptedItems : InSomeInsert(x) \/ x \in FailedItems

\* C37 amended: when the worker has ended after close(), every record it
\* took from the queue is part of some bulk-insert attempt unless its
\* formatting failed; the records it did not take are still in the queue,
\* in no insert: they are abandoned, not drained.
C37_TakenRecordsFlushed ==
    (wpc = "done" /\ at_close.called) =>
        /\ \A k \in 1..Len(gets) : gets[k].ok => InSomeInsert(gets[k].item)
        /\ \A k \in 1..Len(data_queue) :
              /\ ~InSomeInsert(data_queue[k])
              /\ data_queue[k] \notin FailedItems
        /\ buffer # <<>> => FinalFlushed

\* the worker has ended: the record it had buffered went out with the final
\* flush, a record that was queued at the stop was left behind
C37_Witness ==
    /\ wpc = "done"
    /\ at_close.called
    /\ at_close.buffer # <<>>
    /\ FinalFlushed
    /\ data_queue # <<>>
    /\ \E k \in 1..Len(at_close.queue) : at_close.queue[k] = data_queue[Len(data_queue)]

StrictlyIncreasing(q) == \A i, j \in 1..Len(q) : i < j => q[i] < q[j]

\* C38: process() numbers the records in the order it enqueues them; the
\* bulk inserts, one after the other, hold them in that order; a record that
\* is missing before the last inserted one is one whose formatting failed;
\* and what is still buffered or queued comes after everything inserted.
C38_SubmissionOrderKept ==
    LET done == Flatten(inserts)
    IN /\ StrictlyIncreasing(done \o (IF FinalFlushed THEN <<>> ELSE buffer) \o data_queue)
       /\ \A x \in 1..submitted :
            (done # <<>> /\ x < done[Len(done)] /\ x \in AcceptedItems /\ ~InSomeInsert(x))
                => x \in FailedItems

\* three records went out in two bulk inserts, in the order of submission
C38_Witness ==
    /\ Len(inserts) = 2
    /\ Flatten(inserts) = <<1, 2, 3>>
    /\ \A i \in 1..2 : inserts[i].ok

\* C39: an entry is marked evidenceQueued only when its job message has been
\* published; an entry whose publish failed stays unmarked.
C39_MarkedOnlyIfPublished ==
    \A e \in evidenceQueued : \E k \in 1..Len(jobs) : jobs[k] = e

\* C40: every delivery is acknowledged exactly once - never twice, and once
\* by the time the callback has returned, however it ended - and it is the
\* delivery at hand that a step acknowledges; so the broker, which holds
\* back while a delivery is unacknowledged, can always hand the waiting
\* worker the next message.
C40_AckedExactlyOnce ==
    /\ [](\A t \in 1..MaxJobs : ew_acks[t] <= 1)
    /\ [](ew_pc = "wait" => /\ Len(ew_log) = ew_delivered
                            /\ \A t \in 1..ew_delivered : ew_acks[t] = 1)
    /\ [][\A t \in 1..MaxJobs : ew_acks'[t] # ew_acks[t] => t = ew_msg.tag]_vars
    /\ []((ew_pc = "wait" /\ ew_ready # <<>>) => ENABLED Deliver)

\* four callbacks have returned, one by each way out, each delivery
\* acknowledged
C40_Witness ==
    /\ ew_pc = "wait"
    /\ ew_delivered = 4
    /\ {ew_log[k] : k \in 1..Len(ew_log)} = {"discarded", "complete", "failed", "error"}
    /\ \A t \in 1..4 : ew_acks[t] = 1

====
